---- MODULE Spec2Model ----
(***************************************************************************)
(* vrt-events-essence: the dispatcher (EventListener) and the handlers of  *)
(* app/app.py, with the event parser, the retry decorator, the PID client  *)
(* and the rabbit client they call.                                        *)
(*                                                                         *)
(* One inbound message is handled at a time.  Every call the code makes    *)
(* is appended to the history `calls`, in the order the code makes it.     *)
(* Strings are sequences of atoms; "." is the only atom that holds a dot.  *)
(* Durations are in tenths of a second (SLEEP_TIME = 0.7 s is 7).          *)
(*                                                                         *)
(* Spec follows one delivery at a time with every answer of the            *)
(* collaborators left open.  BackendSpec delivers linked events one after  *)
(* another against a backend that keeps what was stored.  GetFragmentSpec  *)
(* applies BaseHandler._get_fragment to every argument and answer.         *)
(* RequeueSpec follows one linked message through its redeliveries.        *)
(* ParserSpec constructs an event of every class from every body.          *)
(* ConstructMetadataSpec builds the sidecar for every media id, pid and    *)
(* ie_type.                                                                *)
(* AuthenticateSpec runs the calls of one MediahavenClient                 *)
(* (app/services/mediahaven.py) through its authenticate decorator.        *)
(***************************************************************************)
EXTENDS Integers, Sequences, FiniteSets, TLC

VARIABLES
    pc,        \* position of the single consumer thread
    method,    \* pika method frame of the delivery: routing_key, delivery_tag
    body,      \* raw body of the delivery
    handler,   \* handler object built by _calculate_handler
    event,     \* event parsed by the handler
    loc,       \* locals of the running handle_event
    exc,       \* exception in flight / last raised
    calls,     \* history of the calls made for the current delivery
    mh,        \* MediaHaven: per media id, the number of fragments whose
               \* dc_identifier_localid the handler has set to it
    created    \* MediaHaven: the number of fragments create_fragment has
               \* made for the message that is delivered again and again

vars == <<pc, method, body, handler, event, loc, exc, calls, mh, created>>

----------------------------------------------------------------------------
(* Bounds *)

MaxKeyLen == 3      \* longest routing key, in atoms
MaxTag == 2         \* delivery tags 1..MaxTag
MaxTotal == 2       \* most records on one page of search results
MaxLinked == 2      \* fragments counted per media id; MaxLinked means "or more"
MaxExpected == 3    \* largest expected_amount handed to _get_fragment
MaxCreated == 2     \* created fragments counted; MaxCreated means "or more"

(* Program constants *)

SLEEP_TIME == 7          \* app.py:34 (0.7 s)
REQUEUE_SLEEP == 100     \* app.py:573 (10 s)
DELAY == 10              \* retry.py:17 (1 s)
BACKOFF == 2             \* retry.py:18
NUMBER_OF_TRIES == 5     \* retry.py:19

----------------------------------------------------------------------------
(* Configuration (conftest.py) *)

essence_linked_rk == <<"essence_linked">>
essence_unlinked_rk == <<"essence_unlinked">>
object_deleted_rk == <<"object_deleted">>
get_metadata_rk == <<"get_metadata">>

Atoms == {"essence_linked", "essence_unlinked", "object_deleted", "."}

SeqsUpTo(S, n) == UNION {[1..k -> S] : k \in 0..n}

RoutingKeys == SeqsUpTo(Atoms, MaxKeyLen)

----------------------------------------------------------------------------
(* str.split(sep)[-1] *)

RECURSIVE Split(_, _)
Split(s, sep) ==
    IF \E i \in 1..Len(s) : s[i] = sep
    THEN LET i == CHOOSE j \in 1..Len(s) :
                      s[j] = sep /\ \A k \in 1..(j - 1) : s[k] # sep
         IN  <<SubSeq(s, 1, i - 1)>> \o Split(SubSeq(s, i + 1, Len(s)), sep)
    ELSE <<s>>

LastOf(list) == list[Len(list)]

EndsWith(s, suffix) ==
    /\ Len(s) >= Len(suffix)
    /\ SubSeq(s, Len(s) - Len(suffix) + 1, Len(s)) = suffix

----------------------------------------------------------------------------
(* Inbound events: the XML document of a body, as the parser sees it *)

Absent == "<absent>"
MediaIds == {"m1", "m2"}
Buckets == {"original-video", "s3_bucket"}
RootTags == {"essenceLinkedEvent", "essenceUnlinkedEvent", "objectDeletedEvent"}

NotXml == [xml |-> FALSE, root |-> Absent, timestamp |-> Absent,
           mediaId |-> Absent, file |-> Absent, s3bucket |-> Absent]

Bodies ==
    {NotXml}
    \cup [xml : {TRUE}, root : {"essenceLinkedEvent"},
          timestamp : {Absent, "ts"}, mediaId : {Absent} \cup MediaIds,
          file : {Absent, "file.mxf"}, s3bucket : {Absent} \cup Buckets]
    \cup [xml : {TRUE}, root : {"essenceUnlinkedEvent", "objectDeletedEvent"},
          timestamp : {Absent, "ts"}, mediaId : {Absent} \cup MediaIds,
          file : {Absent}, s3bucket : {Absent}]

----------------------------------------------------------------------------
(* Exceptions *)

NoExc == [type |-> "none"]

NackException(message, requeue, kwargs) ==
    [type |-> "NackException", message |-> message, requeue |-> requeue,
     kwargs |-> kwargs]

InvalidEventException(message) ==
    [type |-> "InvalidEventException", message |-> message]

Raised(type) == [type |-> type]

----------------------------------------------------------------------------
(* events_parser.py *)

NoEvent == [root_tag |-> Absent]

\* EssenceEvent._get_essence_event
GetEssenceEvent(root_tag, xml) ==
    IF ~xml.xml THEN InvalidEventException(<<"Event is not valid XML.">>)
    ELSE IF xml.root # root_tag
         THEN InvalidEventException(<<"Event is not a", root_tag>>)
         ELSE NoExc

\* EssenceEvent._get_xpath_from_event with optional = False
GetXpathFromEvent(xml, field) ==
    IF xml[field] = Absent
    THEN InvalidEventException(<<"is not present in the event.", field>>)
    ELSE NoExc

\* first failure in a sequence of checks, NoExc when none fails
RECURSIVE FirstFailure(_)
FirstFailure(checks) ==
    IF checks = <<>> THEN NoExc
    ELSE IF Head(checks).type # "none" THEN Head(checks)
         ELSE FirstFailure(Tail(checks))

\* mutant: the media id is not looked up
EssenceEventError_NoMediaId(root_tag, xml) ==
    FirstFailure(<<GetEssenceEvent(root_tag, xml),
                   GetXpathFromEvent(xml, "timestamp")>>)

\* EssenceEvent.__init__ : the error raised, or NoExc
EssenceEventError(root_tag, xml) ==
    FirstFailure(<<GetEssenceEvent(root_tag, xml),
                   GetXpathFromEvent(xml, "timestamp"),
                   GetXpathFromEvent(xml, "mediaId")>>)

\* EssenceLinkedEvent.__init__ : the error raised, or NoExc
EssenceLinkedEventError(xml) ==
    FirstFailure(<<EssenceEventError("essenceLinkedEvent", xml),
                   GetXpathFromEvent(xml, "file"),
                   GetXpathFromEvent(xml, "s3bucket")>>)

EssenceEvent(root_tag, xml) ==
    [root_tag |-> root_tag, timestamp |-> xml.timestamp,
     media_id |-> xml.mediaId, file |-> Absent, s3_bucket |-> Absent]

EssenceLinkedEvent(xml) ==
    [root_tag |-> "essenceLinkedEvent", timestamp |-> xml.timestamp,
     media_id |-> xml.mediaId, file |-> xml.file, s3_bucket |-> xml.s3bucket]

----------------------------------------------------------------------------
(* History entries *)

Log(level, message, kwargs) ==
    [op |-> "log", level |-> level, message |-> message, kwargs |-> kwargs]

Sleep(tenths) == [op |-> "sleep", tenths |-> tenths]

BasicAck(delivery_tag) == [op |-> "basic_ack", delivery_tag |-> delivery_tag]

BasicNack(delivery_tag, requeue) ==
    [op |-> "basic_nack", delivery_tag |-> delivery_tag, requeue |-> requeue]

Step(name) == [op |-> name]

Count(s, Test(_)) == Cardinality({i \in 1..Len(s) : Test(s[i])})

Indices(s, Test(_)) == {i \in 1..Len(s) : Test(s[i])}

----------------------------------------------------------------------------
(* What the collaborators can answer *)

PyNone == "<None>"

MediaHavenException(status_code) ==
    [type |-> "MediaHavenException", status_code |-> status_code]

RequestException == [type |-> "RequestException"]

StatusCodes == {400, 403, 404}

Return_(value) == [kind |-> "return", value |-> value]
Raise_(error) == [kind |-> "raise", error |-> error]

BackendErrors ==
    {Raise_(MediaHavenException(c)) : c \in StatusCodes}
    \cup {Raise_(RequestException)}

\* a record of a search result: Internal.MediaObjectId, Internal.FragmentId,
\* Administrative.Type, Descriptive.Title; Absent when the attribute is missing
FullRecord == [MediaObjectId |-> "umid", FragmentId |-> "fragment id",
               Type |-> "video", Title |-> "title"]

Records ==
    {FullRecord} \cup {[FullRecord EXCEPT ![f] = Absent] : f \in DOMAIN FullRecord}

Page(records) == [total_nr_of_results |-> Len(records), records |-> records]

EmptyPage == Page(<<>>)

\* a full page of a longer result: the page holds MaxTotal records while
\* total_nr_of_results also counts the matches that are not on the page
FullPages ==
    {[total_nr_of_results |-> MaxTotal + 1, records |-> rs] :
        rs \in {r \in SeqsUpTo(Records, MaxTotal) : Len(r) = MaxTotal}}

SearchOutcomes ==
    {Return_(Page(rs)) : rs \in SeqsUpTo(Records, MaxTotal)}
    \cup {Return_(p) : p \in FullPages}
    \cup BackendErrors

CreateFragmentOutcomes ==
    {Return_([FragmentId |-> f]) : f \in {"new fragment id", Absent}}
    \cup BackendErrors

BoolOutcomes == {Return_(b) : b \in BOOLEAN} \cup BackendErrors

\* requests.get(url) and resp.json() of the PID service
PidResponses == {"request_exception", "not_json", "empty_list", "no_id",
                 "pid", "empty_pid"}

SendMessageOutcomes == {Return_(TRUE), Raise_(Raised("AMQPConnectionError"))}

----------------------------------------------------------------------------
(* BaseHandler *)

\* BaseHandler._create_query: one '+(key: "value")' clause per pair
CreateQuery(query_key_values) ==
    [i \in 1..Len(query_key_values) |->
        [plus |-> query_key_values[i][1], quoted |-> query_key_values[i][2]]]

Search(q, outcome) == [op |-> "search", q |-> q, outcome |-> outcome]

\* mutant: more results than expected are let through
GetFragment_AtLeast(query_key_values, expected_amount, outcome) ==
    LET call == Search(CreateQuery(query_key_values), outcome)
    IN  IF outcome.kind = "return"
        THEN LET number_of_results == outcome.value.total_nr_of_results
             IN  IF expected_amount > -1 /\ number_of_results < expected_amount
                 THEN [calls |-> <<call>>,
                       exc |-> NackException(
                           <<"Expected result(s), found", expected_amount,
                             query_key_values, number_of_results>>,
                           FALSE, [query_key_values |-> query_key_values]),
                       response |-> EmptyPage]
                 ELSE [calls |-> <<call, Sleep(SLEEP_TIME)>>,
                       exc |-> NoExc,
                       response |-> outcome.value]
        ELSE IF outcome.error.type = "MediaHavenException"
        THEN [calls |-> <<call>>,
              exc |-> NackException(
                  <<"Unable to retrieve fragment for", query_key_values>>,
                  FALSE, [error |-> outcome.error,
                          error_response |-> <<"str", outcome.error>>,
                          query_key_values |-> query_key_values]),
              response |-> EmptyPage]
        ELSE [calls |-> <<call>>,
              exc |-> NackException(<<"Unable to connect to MediaHaven">>,
                                    TRUE, [error |-> outcome.error]),
              response |-> EmptyPage]

\* mutant: `if expected_amount and ...`: an expected amount of 0 is not checked
GetFragment_ZeroUnchecked(query_key_values, expected_amount, outcome) ==
    LET call == Search(CreateQuery(query_key_values), outcome)
    IN  IF outcome.kind = "return"
        THEN LET number_of_results == outcome.value.total_nr_of_results
             IN  IF expected_amount > 0 /\ number_of_results # expected_amount
                 THEN [calls |-> <<call>>,
                       exc |-> NackException(
                           <<"Expected result(s), found", expected_amount,
                             query_key_values, number_of_results>>,
                           FALSE, [query_key_values |-> query_key_values]),
                       response |-> EmptyPage]
                 ELSE [calls |-> <<call, Sleep(SLEEP_TIME)>>,
                       exc |-> NoExc,
                       response |-> outcome.value]
        ELSE IF outcome.error.type = "MediaHavenException"
        THEN [calls |-> <<call>>,
              exc |-> NackException(
                  <<"Unable to retrieve fragment for", query_key_values>>,
                  FALSE, [error |-> outcome.error,
                          error_response |-> <<"str", outcome.error>>,
                          query_key_values |-> query_key_values]),
              response |-> EmptyPage]
        ELSE [calls |-> <<call>>,
              exc |-> NackException(<<"Unable to connect to MediaHaven">>,
                                    TRUE, [error |-> outcome.error]),
              response |-> EmptyPage]

\* BaseHandler._get_fragment: the calls made, the exception raised (or
\* NoExc) and the response returned, for one outcome of records.search
GetFragment(query_key_values, expected_amount, outcome) ==
    LET call == Search(CreateQuery(query_key_values), outcome)
    IN  IF outcome.kind = "return"
        THEN LET number_of_results == outcome.value.total_nr_of_results
             IN  IF expected_amount > -1 /\ number_of_results # expected_amount
                 THEN [calls |-> <<call>>,
                       exc |-> NackException(
                           <<"Expected result(s), found", expected_amount,
                             query_key_values, number_of_results>>,
                           FALSE, [query_key_values |-> query_key_values]),
                       response |-> EmptyPage]
                 ELSE [calls |-> <<call, Sleep(SLEEP_TIME)>>,
                       exc |-> NoExc,
                       response |-> outcome.value]
        ELSE IF outcome.error.type = "MediaHavenException"
        THEN [calls |-> <<call>>,
              exc |-> NackException(
                  <<"Unable to retrieve fragment for", query_key_values>>,
                  FALSE, [error |-> outcome.error,
                          error_response |-> <<"str", outcome.error>>,
                          query_key_values |-> query_key_values]),
              response |-> EmptyPage]
        ELSE [calls |-> <<call>>,
              exc |-> NackException(<<"Unable to connect to MediaHaven">>,
                                    TRUE, [error |-> outcome.error]),
              response |-> EmptyPage]

----------------------------------------------------------------------------
(* PIDService *)

\* PIDService.get_pid: the value returned, or the exception raised
GetPid(response) ==
    IF response = "request_exception" THEN Return_(PyNone)
    ELSE IF response = "not_json" THEN Raise_(Raised("JSONDecodeError"))
    ELSE IF response \in {"empty_list", "no_id"} THEN Return_(PyNone)
    ELSE IF response = "empty_pid" THEN Return_("")
    ELSE Return_("j96059k22s")

\* mutant: `if pid is None`: an empty string counts as a pid
Truthy_NotNone(value) == value # PyNone

\* truth value of a str / None
Truthy(value) == value \notin {PyNone, ""}

----------------------------------------------------------------------------
(* EssenceLinkedHandler *)

Element(tag, text, children) ==
    [tag |-> tag, text |-> text, children |-> children]

\* mutant: PID is written before dc_identifier_localid
ConstructMetadata_PidFirst(media_id, pid, ie_type) ==
    [tag |-> "mhs:Sidecar", version |-> "20.1",
     children |-> <<
        Element("mhs:Dynamic", PyNone, <<
            Element("PID", pid, <<>>),
            Element("dc_identifier_localid", media_id, <<>>),
            Element("dc_identifier_localids", PyNone,
                    <<Element("MEDIA_ID", media_id, <<>>)>>),
            Element("object_level", "ie", <<>>),
            Element("object_use", "archive_master", <<>>),
            Element("ie_type", ie_type, <<>>)>>)>>]

\* EssenceLinkedHandler._construct_metadata
ConstructMetadata(media_id, pid, ie_type) ==
    [tag |-> "mhs:Sidecar", version |-> "20.1",
     children |-> <<
        Element("mhs:Dynamic", PyNone, <<
            Element("dc_identifier_localid", media_id, <<>>),
            Element("PID", pid, <<>>),
            Element("dc_identifier_localids", PyNone,
                    <<Element("MEDIA_ID", media_id, <<>>)>>),
            Element("object_level", "ie", <<>>),
            Element("object_use", "archive_master", <<>>),
            Element("ie_type", ie_type, <<>>)>>)>>]

\* mutant: the correlation id is not the media id
GenerateGetMetadataRequestXml_NoCorrelation(timestamp, correlation_id, media_id) ==
    [tag |-> "getMetadataRequest",
     children |-> <<Element("timestamp", timestamp, <<>>),
                    Element("correlationId", timestamp, <<>>),
                    Element("mediaId", media_id, <<>>)>>]

\* EssenceLinkedHandler._generate_get_metadata_request_xml
GenerateGetMetadataRequestXml(timestamp, correlation_id, media_id) ==
    [tag |-> "getMetadataRequest",
     children |-> <<Element("timestamp", timestamp, <<>>),
                    Element("correlationId", correlation_id, <<>>),
                    Element("mediaId", media_id, <<>>)>>]

----------------------------------------------------------------------------
(* EventListener *)

NoHandler == [kind |-> "none", routing_key |-> <<>>]
NoMethod == [routing_key |-> <<>>, delivery_tag |-> 0]
\* no fragment carries a media id set by the handler
NothingLinked == [m \in MediaIds |-> 0]

NoLoc ==
    [fragment |-> EmptyPage, umid |-> PyNone, ie_type |-> PyNone,
     pid |-> PyNone, create_fragment_response |-> [FragmentId |-> Absent],
     fragment_id |-> PyNone, sidecar |-> PyNone, tries |-> 0, delay |-> 0,
     response |-> EmptyPage, index |-> 0]

\* mutant: the whole routing key is compared, without split(".")[-1]
CalculateHandlerFor_NoSplit(routing_key) ==
    IF routing_key = essence_linked_rk
    THEN [kind |-> "EssenceLinkedHandler", routing_key |-> get_metadata_rk]
    ELSE IF routing_key = essence_unlinked_rk
    THEN [kind |-> "EssenceUnlinkedHandler", routing_key |-> <<>>]
    ELSE IF routing_key = object_deleted_rk
    THEN [kind |-> "ObjectDeletedHandler", routing_key |-> <<>>]
    ELSE [kind |-> "UnknownRoutingKeyHandler", routing_key |-> routing_key]

\* EventListener._calculate_handler
CalculateHandlerFor(routing_key) ==
    LET event_type == LastOf(Split(routing_key, "."))
    IN  IF event_type = essence_linked_rk
        THEN [kind |-> "EssenceLinkedHandler", routing_key |-> get_metadata_rk]
        ELSE IF event_type = essence_unlinked_rk
        THEN [kind |-> "EssenceUnlinkedHandler", routing_key |-> <<>>]
        ELSE IF event_type = object_deleted_rk
        THEN [kind |-> "ObjectDeletedHandler", routing_key |-> <<>>]
        ELSE [kind |-> "UnknownRoutingKeyHandler", routing_key |-> event_type]

\* mutant: the nack never asks for a requeue
HandleNackExceptionCalls_NeverRequeue(nack_exception, delivery_tag) ==
    <<Log("error", nack_exception.message, nack_exception.kwargs)>>
    \o (IF nack_exception.requeue THEN <<Sleep(REQUEUE_SLEEP)>> ELSE <<>>)
    \o <<BasicNack(delivery_tag, FALSE)>>

\* mutant: no sleep before a requeue
HandleNackExceptionCalls_NoSleep(nack_exception, delivery_tag) ==
    <<Log("error", nack_exception.message, nack_exception.kwargs),
      BasicNack(delivery_tag, nack_exception.requeue)>>

\* mutant: the error is logged after the nack
HandleNackExceptionCalls_LogAfter(nack_exception, delivery_tag) ==
    (IF nack_exception.requeue THEN <<Sleep(REQUEUE_SLEEP)>> ELSE <<>>)
    \o <<BasicNack(delivery_tag, nack_exception.requeue),
         Log("error", nack_exception.message, nack_exception.kwargs)>>

\* EventListener._handle_nack_exception: the calls it makes, in order
HandleNackExceptionCalls(nack_exception, delivery_tag) ==
    <<Log("error", nack_exception.message, nack_exception.kwargs)>>
    \o (IF nack_exception.requeue THEN <<Sleep(REQUEUE_SLEEP)>> ELSE <<>>)
    \o <<BasicNack(delivery_tag, nack_exception.requeue)>>

Init ==
    /\ pc = "Idle"
    /\ method = NoMethod
    /\ body = NotXml
    /\ handler = NoHandler
    /\ event = NoEvent
    /\ loc = NoLoc
    /\ exc = NoExc
    /\ calls = <<>>
    /\ mh = NothingLinked
    /\ created = 0

\* pika calls handle_message(channel, method, properties, body)
Deliver ==
    /\ pc = "Idle"
    /\ \E rk \in RoutingKeys, tag \in 1..MaxTag, b \in Bodies :
          /\ method' = [routing_key |-> rk, delivery_tag |-> tag]
          /\ body' = b
    /\ pc' = "handle_message"
    /\ calls' = <<>>
    /\ UNCHANGED <<handler, event, loc, exc, mh, created>>

\* handle_message, lines 600-605: handler = self._calculate_handler(routing_key)
CalculateHandler ==
    /\ pc = "handle_message"
    /\ handler' = CalculateHandlerFor(method.routing_key)
    /\ calls' = Append(calls, Step("_calculate_handler"))
    /\ pc' = "dispatch"
    /\ UNCHANGED <<method, body, event, loc, exc, mh, created>>

\* handle_message, line 607: handler.handle_event(body).  The local
\* routing_key is not read after line 605 and is dropped here.
FirstStep(kind) ==
    IF kind = "UnknownRoutingKeyHandler" THEN "unknown" ELSE "parse_event"

HandleEvent ==
    /\ pc = "dispatch"
    /\ calls' = Append(calls, [op |-> "handle_event", handler |-> handler.kind,
                               message |-> body])
    /\ method' = [method EXCEPT !.routing_key = <<>>]
    /\ pc' = FirstStep(handler.kind)
    /\ UNCHANGED <<body, handler, event, loc, exc, mh, created>>

\* mutant: the unknown routing key is requeued
UnknownHandleEvent_Requeue ==
    /\ pc = "unknown"
    /\ exc' = NackException(<<"Unknown routing key", handler.routing_key>>,
                            TRUE, [incoming_message |-> body])
    /\ pc' = "raised"
    /\ UNCHANGED <<method, body, handler, event, loc, calls, mh, created>>

\* UnknownRoutingKeyHandler.handle_event
UnknownHandleEvent ==
    /\ pc = "unknown"
    /\ exc' = NackException(<<"Unknown routing key", handler.routing_key>>,
                            FALSE, [incoming_message |-> body])
    /\ pc' = "raised"
    /\ UNCHANGED <<method, body, handler, event, loc, calls, mh, created>>

\* mutant: a requeue-eligible stop makes the dispatcher run the handler again
HandleNackException_Retry ==
    /\ pc = "raised"
    /\ exc.type = "NackException"
    /\ IF exc.requeue /\ Count(calls, LAMBDA c : c.op = "handle_event") < 2
       THEN /\ pc' = "dispatch"
            /\ exc' = NoExc
            /\ calls' = calls
       ELSE /\ calls' = calls \o HandleNackExceptionCalls(exc, method.delivery_tag)
            /\ pc' = "Done"
            /\ exc' = exc
    /\ UNCHANGED <<method, body, handler, event, loc, mh, created>>

\* handle_message, lines 608-610: except NackException
HandleNackException ==
    /\ pc = "raised"
    /\ exc.type = "NackException"
    /\ calls' = calls \o HandleNackExceptionCalls(exc, method.delivery_tag)
    /\ pc' = "Done"
    /\ UNCHANGED <<method, body, handler, event, loc, exc, mh, created>>

\* any other exception leaves handle_message: no except clause matches it
Propagate ==
    /\ pc = "raised"
    /\ exc.type # "NackException"
    /\ pc' = "Crashed"
    /\ UNCHANGED <<method, body, handler, event, loc, exc, calls, mh, created>>

\* mutant: the ack names a fixed delivery tag
Ack_FirstTag ==
    /\ pc = "returned"
    /\ calls' = Append(calls, BasicAck(1))
    /\ pc' = "Done"
    /\ UNCHANGED <<method, body, handler, event, loc, exc, mh, created>>

\* handle_message, line 611: channel.basic_ack
Ack ==
    /\ pc = "returned"
    /\ calls' = Append(calls, BasicAck(method.delivery_tag))
    /\ pc' = "Done"
    /\ UNCHANGED <<method, body, handler, event, loc, exc, mh, created>>

\* handle_message returns to the consumer loop.  Each delivery is followed
\* on its own here: the answers of the backend are open at every call, and
\* mh holds what the delivery at hand has stored.
Return ==
    /\ pc = "Done"
    /\ pc' = "Idle"
    /\ method' = NoMethod
    /\ body' = NotXml
    /\ handler' = NoHandler
    /\ event' = NoEvent
    /\ loc' = NoLoc
    /\ exc' = NoExc
    /\ calls' = <<>>
    /\ mh' = NothingLinked
    /\ UNCHANGED created

----------------------------------------------------------------------------
(* EssenceLinkedHandler.handle_event, one action per step *)

Raise(error) == exc' = error /\ pc' = "raised"

\* mutant: the bucket of the event is not looked at
LinkedParseEvent_NoSkip ==
    /\ pc = "parse_event"
    /\ handler.kind = "EssenceLinkedHandler"
    /\ calls' = Append(calls, Step("_parse_event"))
    /\ LET error == EssenceLinkedEventError(body)
       IN  IF error.type # "none"
           THEN /\ Raise(NackException(
                        <<"Unable to parse the incoming essence linked event">>,
                        FALSE, [error |-> error, essence_linked_event |-> body]))
                /\ event' = event
           ELSE /\ event' = EssenceLinkedEvent(body)
                /\ exc' = exc
                /\ pc' = "get_main_fragment"
    /\ UNCHANGED <<method, body, handler, loc, mh, created>>

\* _parse_event (lines 251-260) and the bucket test (lines 199-203)
LinkedParseEvent ==
    /\ pc = "parse_event"
    /\ handler.kind = "EssenceLinkedHandler"
    /\ calls' = Append(calls, Step("_parse_event"))
    /\ LET error == EssenceLinkedEventError(body)
       IN  IF error.type # "none"
           THEN /\ Raise(NackException(
                        <<"Unable to parse the incoming essence linked event">>,
                        FALSE, [error |-> error, essence_linked_event |-> body]))
                /\ event' = event
           ELSE /\ event' = EssenceLinkedEvent(body)
                /\ exc' = exc
                /\ pc' = IF event'.s3_bucket = "original-video"
                         THEN "returned" ELSE "get_main_fragment"
    /\ UNCHANGED <<method, body, handler, loc, mh, created>>

MainFragmentQuery(ev) == <<<<"s3_object_key", ev.file>>, <<"IsFragment", "0">>>>

\* mutant: the guard asks for the file of the event
MediaIdQuery_ByFile(ev) == <<<<"dc_identifier_localid", ev.file>>>>

MediaIdQuery(ev) == <<<<"dc_identifier_localid", ev.media_id>>>>

\* lines 209-211: the main fragment, exactly one expected
GetMainFragment ==
    /\ pc = "get_main_fragment"
    /\ \E outcome \in SearchOutcomes :
          LET r == GetFragment(MainFragmentQuery(event), 1, outcome)
          IN  /\ calls' = calls \o r.calls
              /\ IF r.exc.type # "none"
                 THEN Raise(r.exc) /\ loc' = loc
                 ELSE /\ loc' = [loc EXCEPT !.fragment = r.response]
                      /\ pc' = "check_media_id"
                      /\ exc' = exc
    /\ UNCHANGED <<method, body, handler, event, mh, created>>

\* mutant: the media id query is made without an expected amount
CheckMediaIdFor_NoExpectation(outcome) ==
    LET r == GetFragment(MediaIdQuery(event), -1, outcome)
    IN  /\ calls' = calls \o r.calls
        /\ IF r.exc.type # "none"
           THEN Raise(r.exc)
           ELSE pc' = "parse_umid" /\ exc' = exc

\* line 214 for one answer of the search: no fragment with the media id
\* expected
CheckMediaIdFor(outcome) ==
    LET r == GetFragment(MediaIdQuery(event), 0, outcome)
    IN  /\ calls' = calls \o r.calls
        /\ IF r.exc.type # "none"
           THEN Raise(r.exc)
           ELSE pc' = "parse_umid" /\ exc' = exc

\* line 214: self._get_fragment([("dc_identifier_localid", media_id)], 0)
CheckMediaId ==
    /\ pc = "check_media_id"
    /\ \E outcome \in SearchOutcomes : CheckMediaIdFor(outcome)
    /\ UNCHANGED <<method, body, handler, event, loc, mh, created>>

\* _parse_umid
ParseUmid ==
    /\ pc = "parse_umid"
    /\ calls' = Append(calls, Step("_parse_umid"))
    /\ LET record == loc.fragment.records[1]
       IN  IF record.MediaObjectId = Absent
           THEN /\ Raise(NackException(
                        <<"MediaObjectId not found in the MediaHaven object">>,
                        FALSE, [error |-> Raised("AttributeError"),
                                fragment |-> record]))
                /\ loc' = loc
           ELSE /\ loc' = [loc EXCEPT !.umid = record.MediaObjectId]
                /\ pc' = "parse_ie_type"
                /\ exc' = exc
    /\ UNCHANGED <<method, body, handler, event, mh, created>>

\* mutant: a record without Administrative.Type stops the handler
ParseIeType_Stops ==
    /\ pc = "parse_ie_type"
    /\ calls' = Append(calls, Step("_parse_ie_type"))
    /\ LET record == loc.fragment.records[1]
       IN  IF record.Type = Absent
           THEN /\ Raise(NackException(<<"Type not found">>, FALSE, <<>>))
                /\ loc' = loc
           ELSE /\ loc' = [loc EXCEPT !.ie_type = record.Type]
                /\ pc' = "get_pid"
                /\ exc' = exc
    /\ UNCHANGED <<method, body, handler, event, mh, created>>

\* _parse_ie_type
ParseIeType ==
    /\ pc = "parse_ie_type"
    /\ calls' = Append(calls, Step("_parse_ie_type"))
    /\ LET record == loc.fragment.records[1]
       IN  loc' = [loc EXCEPT !.ie_type = IF record.Type = Absent
                                          THEN PyNone ELSE record.Type]
    /\ pc' = "get_pid"
    /\ UNCHANGED <<method, body, handler, event, exc, mh, created>>

\* _get_pid: pid_service.get_pid() makes one requests.get and answers from
\* its response; `if not pid` stops with requeue True
GetPidStep ==
    /\ pc = "get_pid"
    /\ \E response \in PidResponses :
          LET r == GetPid(response)
          IN  /\ calls' = calls \o <<[op |-> "requests.get",
                                      response |-> response],
                                     [op |-> "get_pid", outcome |-> r]>>
              /\ IF r.kind = "raise"
                 THEN Raise(r.error) /\ loc' = loc
                 ELSE IF ~Truthy(r.value)
                 THEN /\ Raise(NackException(<<"Unable to get a pid">>, TRUE,
                                             <<>>))
                      /\ loc' = loc
                 ELSE /\ loc' = [loc EXCEPT !.pid = r.value]
                      /\ pc' = "create_fragment"
                      /\ exc' = exc
    /\ UNCHANGED <<method, body, handler, event, mh, created>>

\* lines 226-228: fragment[0].Descriptive.Title is read before the call
\* _create_fragment
CreateFragmentCall ==
    /\ pc = "create_fragment"
    /\ LET title == loc.fragment.records[1].Title
       IN  IF title = Absent
           THEN /\ Raise(Raised("AttributeError"))
                /\ UNCHANGED <<loc, calls>>
           ELSE \E outcome \in CreateFragmentOutcomes :
                  /\ calls' = calls \o
                        <<[op |-> "create_fragment", umid |-> loc.umid,
                           title |-> title, outcome |-> outcome]>>
                        \o (IF outcome.kind = "return"
                            THEN <<Sleep(SLEEP_TIME)>> ELSE <<>>)
                  /\ IF outcome.kind = "return"
                     THEN /\ loc' = [loc EXCEPT
                                 !.create_fragment_response = outcome.value]
                          /\ pc' = "parse_fragment_id"
                          /\ exc' = exc
                     ELSE IF outcome.error.type = "MediaHavenException"
                     THEN /\ Raise(NackException(
                                  <<"Unable to create a fragment for umid",
                                    loc.umid>>,
                                  FALSE,
                                  [error |-> outcome.error,
                                   error_response |-> <<"str", outcome.error>>,
                                   umid |-> loc.umid]))
                          /\ loc' = loc
                     ELSE /\ Raise(NackException(
                                  <<"Unable to connect to MediaHaven">>, TRUE,
                                  [error |-> outcome.error, umid |-> loc.umid]))
                          /\ loc' = loc
    /\ UNCHANGED <<method, body, handler, event, mh>>

\* the step of a delivery that is followed on its own
CreateFragment ==
    /\ CreateFragmentCall
    /\ UNCHANGED created

\* mutant: a response without a fragment id is passed on
ParseFragmentId_NoKeyError ==
    /\ pc = "parse_fragment_id"
    /\ calls' = Append(calls, Step("_parse_fragment_id"))
    /\ LET response == loc.create_fragment_response
       IN       /\ loc' = [loc EXCEPT !.fragment_id = response.FragmentId]
                /\ pc' = "add_metadata"
                /\ exc' = exc
    /\ UNCHANGED <<method, body, handler, event, mh, created>>

\* _parse_fragment_id
ParseFragmentId ==
    /\ pc = "parse_fragment_id"
    /\ calls' = Append(calls, Step("_parse_fragment_id"))
    /\ LET response == loc.create_fragment_response
       IN  IF response.FragmentId = Absent
           THEN /\ Raise(NackException(
                        <<"fragmentId not found in the response of the create fragment call">>,
                        FALSE, [create_fragment_response |-> response,
                                error |-> Raised("KeyError")]))
                /\ loc' = loc
           ELSE /\ loc' = [loc EXCEPT !.fragment_id = response.FragmentId]
                /\ pc' = "add_metadata"
                /\ exc' = exc
    /\ UNCHANGED <<method, body, handler, event, mh, created>>

\* mutant: the wrapper starts with one try less
AddMetadata_FourTries ==
    /\ pc = "add_metadata"
    /\ calls' = Append(calls, Step("_add_metadata"))
    /\ loc' = [loc EXCEPT
                 !.sidecar = ConstructMetadata(event.media_id, loc.pid,
                                               loc.ie_type),
                 !.tries = NUMBER_OF_TRIES - 1,
                 !.delay = DELAY]
    /\ pc' = "retry_loop"
    /\ UNCHANGED <<method, body, handler, event, exc, mh, created>>

\* mutant: the tries and the delay are not set anew
AddMetadata_NoReset ==
    /\ pc = "add_metadata"
    /\ calls' = Append(calls, Step("_add_metadata"))
    /\ loc' = [loc EXCEPT
                 !.sidecar = ConstructMetadata(event.media_id, loc.pid,
                                               loc.ie_type)]
    /\ pc' = "retry_loop"
    /\ UNCHANGED <<method, body, handler, event, exc, mh, created>>

\* _add_metadata, lines 375-379: build the sidecar and enter the retry
\* wrapper of _add_metadata_to_fragment (retry.py lines 26-27)
AddMetadata ==
    /\ pc = "add_metadata"
    /\ calls' = Append(calls, Step("_add_metadata"))
    /\ loc' = [loc EXCEPT
                 !.sidecar = ConstructMetadata(event.media_id, loc.pid,
                                               loc.ie_type),
                 !.tries = NUMBER_OF_TRIES,
                 !.delay = DELAY]
    /\ pc' = "retry_loop"
    /\ UNCHANGED <<method, body, handler, event, exc, mh, created>>

\* mutant: every error response is retried
Retryable_AnyStatus(error) ==
    error.type = "MediaHavenException"

\* _add_metadata_to_fragment raises RetryException for these statuses
Retryable(error) ==
    error.type = "MediaHavenException" /\ error.status_code \in {403, 404}

\* mutant: a lost connection during the update is not requeued
AddMetadataError_NoRequeue(error, fragment_id, media_id) ==
    IF error.type = "MediaHavenException"
    THEN NackException(
             <<"Unable to update the metadata for fragment id", fragment_id,
               media_id>>,
             FALSE, [error |-> error, error_response |-> <<"str", error>>,
                     fragment_id |-> fragment_id, media_id |-> media_id])
    ELSE NackException(<<"Unable to connect to MediaHaven">>, FALSE,
                       [error |-> error, fragment_id |-> fragment_id])

\* _add_metadata, lines 380-400: what it raises for the exception that
\* left the wrapper
AddMetadataError(error, fragment_id, media_id) ==
    IF error.type = "MediaHavenException"
    THEN NackException(
             <<"Unable to update the metadata for fragment id", fragment_id,
               media_id>>,
             FALSE, [error |-> error, error_response |-> <<"str", error>>,
                     fragment_id |-> fragment_id, media_id |-> media_id])
    ELSE NackException(<<"Unable to connect to MediaHaven">>, TRUE,
                       [error |-> error, fragment_id |-> fragment_id])

\* mutant: a False result of the update is requeued
AddMetadataFalse_Requeue(fragment_id, media_id) ==
    NackException(
        <<"Unable to update the metadata for fragment id", fragment_id,
          media_id>>,
        TRUE, [fragment_id |-> fragment_id, media_id |-> media_id])

\* _add_metadata, lines 395-400: `if not result`
AddMetadataFalse(fragment_id, media_id) ==
    NackException(
        <<"Unable to update the metadata for fragment id", fragment_id,
          media_id>>,
        FALSE, [fragment_id |-> fragment_id, media_id |-> media_id])

Update(fragment_id, sidecar, media_id, pid, outcome) ==
    [op |-> "update", fragment_id |-> fragment_id, metadata |-> sidecar,
     metadata_content_type |-> "application/xml",
     reason |-> <<"essenceLinked: add mediaID and PID to fragment", media_id,
                  pid>>,
     outcome |-> outcome]

\* whether records.update stored the metadata in the backend: it did when
\* the answer is True and did not when the answer is an error response; a
\* False answer or a lost connection leaves both possible
Stored(outcome) ==
    IF outcome.kind = "return"
    THEN (IF outcome.value THEN {TRUE} ELSE BOOLEAN)
    ELSE IF outcome.error.type = "RequestException" THEN BOOLEAN
    ELSE {FALSE}

\* the backend after one more fragment got media_id as dc_identifier_localid
Link(store, media_id) ==
    [store EXCEPT ![media_id] = IF @ < MaxLinked THEN @ + 1 ELSE @]

\* mutant: the delay stays what it was
RetryAttempt_NoBackoff ==
    /\ pc = "retry_loop"
    /\ loc.tries > 0
    /\ \E outcome \in BoolOutcomes :
          /\ \E stored \in Stored(outcome) :
                mh' = IF stored THEN Link(mh, event.media_id) ELSE mh
          /\ LET call == Update(loc.fragment_id, loc.sidecar, event.media_id,
                                loc.pid, outcome)
             IN  IF outcome.kind = "return"
                 THEN /\ calls' = Append(calls, call)
                      /\ loc' = [loc EXCEPT !.tries = @ - 1]
                      /\ IF outcome.value
                         THEN pc' = "send_message" /\ exc' = exc
                         ELSE Raise(AddMetadataFalse(loc.fragment_id,
                                                     event.media_id))
                 ELSE IF Retryable(outcome.error)
                 THEN /\ calls' = calls \o <<call, Sleep(loc.delay)>>
                      /\ loc' = [loc EXCEPT !.tries = @ - 1]
                      /\ pc' = "retry_loop"
                      /\ exc' = exc
                 ELSE /\ calls' = Append(calls, call)
                      /\ loc' = [loc EXCEPT !.tries = @ - 1]
                      /\ Raise(AddMetadataError(outcome.error, loc.fragment_id,
                                                event.media_id))
    /\ UNCHANGED <<method, body, handler, event, created>>

\* mutant: a retried attempt does not use up a try
RetryAttempt_KeepsTries ==
    /\ pc = "retry_loop"
    /\ loc.tries > 0
    /\ \E outcome \in BoolOutcomes :
          /\ \E stored \in Stored(outcome) :
                mh' = IF stored THEN Link(mh, event.media_id) ELSE mh
          /\ LET call == Update(loc.fragment_id, loc.sidecar, event.media_id,
                                loc.pid, outcome)
             IN  IF outcome.kind = "return"
                 THEN /\ calls' = Append(calls, call)
                      /\ loc' = [loc EXCEPT !.tries = @ - 1]
                      /\ IF outcome.value
                         THEN pc' = "send_message" /\ exc' = exc
                         ELSE Raise(AddMetadataFalse(loc.fragment_id,
                                                     event.media_id))
                 ELSE IF Retryable(outcome.error)
                 THEN /\ calls' = calls \o <<call, Sleep(loc.delay)>>
                      /\ loc' = [loc EXCEPT !.delay = @ * BACKOFF]
                      /\ pc' = "retry_loop"
                      /\ exc' = exc
                 ELSE /\ calls' = Append(calls, call)
                      /\ loc' = [loc EXCEPT !.tries = @ - 1]
                      /\ Raise(AddMetadataError(outcome.error, loc.fragment_id,
                                                event.media_id))
    /\ UNCHANGED <<method, body, handler, event, created>>

\* one pass of the wrapper's `while tries` loop (retry.py lines 28-38)
RetryAttempt ==
    /\ pc = "retry_loop"
    /\ loc.tries > 0
    /\ \E outcome \in BoolOutcomes :
          /\ \E stored \in Stored(outcome) :
                mh' = IF stored THEN Link(mh, event.media_id) ELSE mh
          /\ LET call == Update(loc.fragment_id, loc.sidecar, event.media_id,
                                loc.pid, outcome)
             IN  IF outcome.kind = "return"
                 THEN /\ calls' = Append(calls, call)
                      /\ loc' = [loc EXCEPT !.tries = @ - 1]
                      /\ IF outcome.value
                         THEN pc' = "send_message" /\ exc' = exc
                         ELSE Raise(AddMetadataFalse(loc.fragment_id,
                                                     event.media_id))
                 ELSE IF Retryable(outcome.error)
                 THEN /\ calls' = calls \o <<call, Sleep(loc.delay)>>
                      /\ loc' = [loc EXCEPT !.tries = @ - 1,
                                            !.delay = @ * BACKOFF]
                      /\ pc' = "retry_loop"
                      /\ exc' = exc
                 ELSE /\ calls' = Append(calls, call)
                      /\ loc' = [loc EXCEPT !.tries = @ - 1]
                      /\ Raise(AddMetadataError(outcome.error, loc.fragment_id,
                                                event.media_id))
    /\ UNCHANGED <<method, body, handler, event, created>>

\* mutant: once the tries are used up the wrapper raises the backend error
RetryExhausted_Raises ==
    /\ pc = "retry_loop"
    /\ loc.tries = 0
    /\ Raise(AddMetadataError(MediaHavenException(404), loc.fragment_id,
                              event.media_id))
    /\ UNCHANGED <<method, body, handler, event, loc, calls, mh, created>>

\* mutant: the fragment is deleted again once the tries are used up
RetryExhausted_Compensates ==
    /\ pc = "retry_loop"
    /\ loc.tries = 0
    /\ calls' = Append(calls, [op |-> "delete", fragment_id |-> loc.fragment_id,
                               outcome |-> Return_(TRUE)])
    /\ exc' = AddMetadataFalse(loc.fragment_id, event.media_id)
    /\ pc' = "raised"
    /\ UNCHANGED <<method, body, handler, event, loc, mh, created>>

\* mutant: the handler goes on once the tries are used up
RetryExhausted_GoesOn ==
    /\ pc = "retry_loop"
    /\ loc.tries = 0
    /\ pc' = "send_message"
    /\ UNCHANGED <<method, body, handler, event, loc, exc, calls, mh, created>>

\* retry.py line 39: `return False` once the tries are used up
RetryExhausted ==
    /\ pc = "retry_loop"
    /\ loc.tries = 0
    /\ Raise(AddMetadataFalse(loc.fragment_id, event.media_id))
    /\ UNCHANGED <<method, body, handler, event, loc, calls, mh, created>>

\* lines 237-244: build the getMetadataRequest and send it
SendMessage ==
    /\ pc = "send_message"
    /\ \E outcome \in SendMessageOutcomes :
          /\ calls' = Append(calls,
                [op |-> "send_message",
                 body |-> GenerateGetMetadataRequestXml(
                              "now", event.media_id, event.media_id),
                 routing_key |-> handler.routing_key,
                 outcome |-> outcome])
          /\ IF outcome.kind = "return"
             THEN pc' = "returned" /\ exc' = exc
             ELSE Raise(outcome.error)
    /\ UNCHANGED <<method, body, handler, event, loc, mh, created>>

----------------------------------------------------------------------------
(* DeleteFragmentHandler.handle_event, one action per step *)

DeleteKinds == {"EssenceUnlinkedHandler", "ObjectDeletedHandler"}

RootTagOf(kind) ==
    IF kind = "EssenceUnlinkedHandler" THEN "essenceUnlinkedEvent"
    ELSE "objectDeletedEvent"

\* mutant: an object deleted event that cannot be parsed is requeued
DeleteParseError_Requeue(kind, error, message) ==
    IF kind = "EssenceUnlinkedHandler"
    THEN NackException(
             <<"Unable to parse the incoming essence unlinked event">>, FALSE,
             [error |-> error, essence_unlinked_event |-> message])
    ELSE NackException(
             <<"Unable to parse the incoming object deleted event">>, TRUE,
             [error |-> error, object_deleted_event |-> message])

\* EssenceUnlinkedHandler._parse_event / ObjectDeletedHandler._parse_event
DeleteParseError(kind, error, message) ==
    IF kind = "EssenceUnlinkedHandler"
    THEN NackException(
             <<"Unable to parse the incoming essence unlinked event">>, FALSE,
             [error |-> error, essence_unlinked_event |-> message])
    ELSE NackException(
             <<"Unable to parse the incoming object deleted event">>, FALSE,
             [error |-> error, object_deleted_event |-> message])

DeleteParseEvent ==
    /\ pc = "parse_event"
    /\ handler.kind \in DeleteKinds
    /\ calls' = Append(calls, Step("_parse_event"))
    /\ LET error == EssenceEventError(RootTagOf(handler.kind), body)
       IN  IF error.type # "none"
           THEN /\ Raise(DeleteParseError(handler.kind, error, body))
                /\ event' = event
           ELSE /\ event' = EssenceEvent(RootTagOf(handler.kind), body)
                /\ pc' = "get_fragments"
                /\ exc' = exc
    /\ UNCHANGED <<method, body, handler, loc, mh, created>>

\* mutant: an empty result is not tested for
DeleteGetFragments_NoEmptyTest ==
    /\ pc = "get_fragments"
    /\ \E outcome \in SearchOutcomes :
          LET r == GetFragment(MediaIdQuery(event), -1, outcome)
          IN  /\ calls' = calls \o r.calls
              /\ IF r.exc.type # "none"
                 THEN Raise(r.exc) /\ loc' = loc
                 ELSE /\ loc' = [loc EXCEPT !.response = r.response,
                                            !.index = 1]
                      /\ pc' = "delete_loop"
                      /\ exc' = exc
    /\ UNCHANGED <<method, body, handler, event, mh, created>>

\* lines 434-440: all items for the media id; none found stops
DeleteGetFragments ==
    /\ pc = "get_fragments"
    /\ \E outcome \in SearchOutcomes :
          LET r == GetFragment(MediaIdQuery(event), -1, outcome)
          IN  /\ calls' = calls \o r.calls
              /\ IF r.exc.type # "none"
                 THEN Raise(r.exc) /\ loc' = loc
                 ELSE IF r.response.total_nr_of_results = 0
                 THEN /\ Raise(NackException(
                              <<"No fragments found for media id",
                                event.media_id>>,
                              FALSE, [media_id |-> event.media_id]))
                      /\ loc' = loc
                 ELSE /\ loc' = [loc EXCEPT !.response = r.response,
                                            !.index = 1]
                      /\ pc' = "delete_loop"
                      /\ exc' = exc
    /\ UNCHANGED <<method, body, handler, event, mh, created>>

\* mutant: an error response to the delete is requeued
DeleteFragmentError_Requeue(error, fragment_id) ==
    IF error.type = "MediaHavenException"
    THEN NackException(
             <<"Unable to delete a fragment for fragment_id", fragment_id>>,
             TRUE, [error |-> error, error_response |-> <<"str", error>>,
                     fragment_id |-> fragment_id])
    ELSE NackException(<<"Unable to connect to MediaHaven">>, TRUE,
                       [error |-> error, fragment_id |-> fragment_id])

\* _delete_fragment: what it raises for an exception of records.delete
DeleteFragmentError(error, fragment_id) ==
    IF error.type = "MediaHavenException"
    THEN NackException(
             <<"Unable to delete a fragment for fragment_id", fragment_id>>,
             FALSE, [error |-> error, error_response |-> <<"str", error>>,
                     fragment_id |-> fragment_id])
    ELSE NackException(<<"Unable to connect to MediaHaven">>, TRUE,
                       [error |-> error, fragment_id |-> fragment_id])

\* mutant: a delete that answers false does not end the loop
DeleteRecord_ContinueOnFalse ==
    /\ pc = "delete_loop"
    /\ loc.index <= Len(loc.response.records)
    /\ LET fragment_id == loc.response.records[loc.index].FragmentId
       IN  IF fragment_id = Absent
           THEN /\ Raise(Raised("AttributeError"))
                /\ UNCHANGED <<loc, calls>>
           ELSE \E outcome \in BoolOutcomes :
                  /\ calls' = calls \o
                        <<[op |-> "delete", fragment_id |-> fragment_id,
                           outcome |-> outcome]>>
                        \o (IF outcome.kind = "return"
                            THEN <<Sleep(SLEEP_TIME)>> ELSE <<>>)
                  /\ IF outcome.kind = "raise"
                     THEN /\ Raise(DeleteFragmentError(outcome.error,
                                                       fragment_id))
                          /\ loc' = loc
                     ELSE /\ loc' = [loc EXCEPT !.index = @ + 1]
                          /\ pc' = "delete_loop"
                          /\ exc' = exc
    /\ UNCHANGED <<method, body, handler, event, mh, created>>

\* lines 443-457: one pass of `for record in response`
DeleteRecord ==
    /\ pc = "delete_loop"
    /\ loc.index <= Len(loc.response.records)
    /\ LET fragment_id == loc.response.records[loc.index].FragmentId
       IN  IF fragment_id = Absent
           THEN /\ Raise(Raised("AttributeError"))
                /\ UNCHANGED <<loc, calls>>
           ELSE \E outcome \in BoolOutcomes :
                  /\ calls' = calls \o
                        <<[op |-> "delete", fragment_id |-> fragment_id,
                           outcome |-> outcome]>>
                        \o (IF outcome.kind = "return"
                            THEN <<Sleep(SLEEP_TIME)>> ELSE <<>>)
                  /\ IF outcome.kind = "raise"
                     THEN /\ Raise(DeleteFragmentError(outcome.error,
                                                       fragment_id))
                          /\ loc' = loc
                     ELSE IF ~outcome.value
                     THEN /\ Raise(NackException(
                                  <<"Unable to delete the fragment for fragment id",
                                    fragment_id>>,
                                  FALSE, [fragment_id |-> fragment_id,
                                          media_id |-> event.media_id]))
                          /\ loc' = loc
                     ELSE /\ loc' = [loc EXCEPT !.index = @ + 1]
                          /\ pc' = "delete_loop"
                          /\ exc' = exc
    /\ UNCHANGED <<method, body, handler, event, mh, created>>

\* lines 459-461: the loop is over, handle_event returns
DeleteDone ==
    /\ pc = "delete_loop"
    /\ loc.index > Len(loc.response.records)
    /\ calls' = Append(calls,
                       Log("info",
                           <<"Successfully deleted",
                             loc.response.total_nr_of_results,
                             "item(s) with media id", event.media_id>>,
                           <<>>))
    /\ pc' = "returned"
    /\ UNCHANGED <<method, body, handler, event, loc, exc, mh, created>>

Next ==
    \/ Deliver
    \/ CalculateHandler
    \/ HandleEvent
    \/ UnknownHandleEvent
    \/ LinkedParseEvent
    \/ GetMainFragment
    \/ CheckMediaId
    \/ ParseUmid
    \/ ParseIeType
    \/ GetPidStep
    \/ CreateFragment
    \/ ParseFragmentId
    \/ AddMetadata
    \/ RetryAttempt
    \/ RetryExhausted
    \/ SendMessage
    \/ DeleteParseEvent
    \/ DeleteGetFragments
    \/ DeleteRecord
    \/ DeleteDone
    \/ HandleNackException
    \/ Propagate
    \/ Ack
    \/ Return

Spec == Init /\ [][Next]_vars

----------------------------------------------------------------------------
(* Serial deliveries of linked events against one backend: the backend     *)
(* keeps what earlier deliveries stored, and a search for a media id       *)
(* reports the fragments that carry it.                                    *)

\* what records.search can answer: for a query on dc_identifier_localid the
\* fragments that carry the media id, or an error; anything for other queries
StoreAnswers(q) ==
    IF \E m \in MediaIds : q = CreateQuery(<<<<"dc_identifier_localid", m>>>>)
    THEN LET media_id == q[1].quoted
         IN  {Return_(Page(rs)) :
                 rs \in {x \in SeqsUpTo(Records, MaxLinked) :
                            Len(x) = mh[media_id]}}
             \cup BackendErrors
    ELSE SearchOutcomes

\* a linked event is delivered
DeliverLinked ==
    /\ Deliver
    /\ method'.routing_key = essence_linked_rk

\* line 214, answered by the backend
CheckMediaIdInBackend ==
    /\ pc = "check_media_id"
    /\ \E outcome \in StoreAnswers(CreateQuery(MediaIdQuery(event))) :
          CheckMediaIdFor(outcome)
    /\ UNCHANGED <<method, body, handler, event, loc, mh, created>>

\* handle_message returns to the consumer loop; the backend stays as it is
NextDelivery ==
    /\ pc = "Done"
    /\ pc' = "Idle"
    /\ method' = NoMethod
    /\ body' = NotXml
    /\ handler' = NoHandler
    /\ event' = NoEvent
    /\ loc' = NoLoc
    /\ exc' = NoExc
    /\ calls' = <<>>
    /\ UNCHANGED <<mh, created>>

\* the exception ended the consumer; the service is started again and the
\* unacknowledged message is delivered again
Restart ==
    /\ pc = "Crashed"
    /\ pc' = "Idle"
    /\ method' = NoMethod
    /\ body' = NotXml
    /\ handler' = NoHandler
    /\ event' = NoEvent
    /\ loc' = NoLoc
    /\ exc' = NoExc
    /\ calls' = <<>>
    /\ UNCHANGED <<mh, created>>

NextBackend ==
    \/ DeliverLinked
    \/ CalculateHandler
    \/ HandleEvent
    \/ LinkedParseEvent
    \/ GetMainFragment
    \/ CheckMediaIdInBackend
    \/ ParseUmid
    \/ ParseIeType
    \/ GetPidStep
    \/ CreateFragment
    \/ ParseFragmentId
    \/ AddMetadata
    \/ RetryAttempt
    \/ RetryExhausted
    \/ SendMessage
    \/ HandleNackException
    \/ Propagate
    \/ Ack
    \/ NextDelivery
    \/ Restart

BackendSpec == Init /\ [][NextBackend]_vars

----------------------------------------------------------------------------
(* One linked message and its redeliveries: basic_nack with requeue puts   *)
(* the message back on the queue and the consumer receives it again.  The  *)
(* backend keeps the fragments that were created and the metadata that     *)
(* was stored.                                                             *)

\* lines 226-228, with the backend keeping the fragment it answers with
CreateFragmentInBackend ==
    /\ CreateFragmentCall
    /\ created' = IF pc' = "parse_fragment_id" /\ created < MaxCreated
                  THEN created + 1 ELSE created

\* mutant: the locals of the earlier delivery are still there
Redeliver_KeepsLocals ==
    /\ pc = "Done"
    /\ handler.kind = "EssenceLinkedHandler"
    /\ \E n \in 1..Len(calls) :
          calls[n].op = "basic_nack" /\ calls[n].requeue
    /\ \E tag \in 1..MaxTag :
          method' = [routing_key |-> essence_linked_rk, delivery_tag |-> tag]
    /\ pc' = "handle_message"
    /\ handler' = NoHandler
    /\ event' = NoEvent
    /\ exc' = NoExc
    /\ calls' = <<>>
    /\ UNCHANGED <<body, loc, mh, created>>

\* rabbit.py listen: the requeued message is consumed again, with the same
\* routing key and body
Redeliver ==
    /\ pc = "Done"
    /\ handler.kind = "EssenceLinkedHandler"
    /\ \E n \in 1..Len(calls) :
          calls[n].op = "basic_nack" /\ calls[n].requeue
    /\ \E tag \in 1..MaxTag :
          method' = [routing_key |-> essence_linked_rk, delivery_tag |-> tag]
    /\ pc' = "handle_message"
    /\ handler' = NoHandler
    /\ event' = NoEvent
    /\ loc' = NoLoc
    /\ exc' = NoExc
    /\ calls' = <<>>
    /\ UNCHANGED <<body, mh, created>>

NextRequeue ==
    \/ DeliverLinked
    \/ CalculateHandler
    \/ HandleEvent
    \/ LinkedParseEvent
    \/ GetMainFragment
    \/ CheckMediaIdInBackend
    \/ ParseUmid
    \/ ParseIeType
    \/ GetPidStep
    \/ CreateFragmentInBackend
    \/ ParseFragmentId
    \/ AddMetadata
    \/ RetryAttempt
    \/ RetryExhausted
    \/ SendMessage
    \/ HandleNackException
    \/ Propagate
    \/ Ack
    \/ Redeliver

RequeueSpec == Init /\ [][NextRequeue]_vars

\* the consumer thread keeps running and the broker keeps delivering
FairRequeueSpec == RequeueSpec /\ WF_vars(NextRequeue)

----------------------------------------------------------------------------
(* BaseHandler._get_fragment on its own: one call for every query,         *)
(* expected amount and answer of records.search.  loc holds the arguments  *)
(* and the locals of the call.                                             *)

Queries ==
    {MediaIdQuery([media_id |-> m]) : m \in MediaIds}
    \cup {MainFragmentQuery([file |-> "file.mxf"])}

GetFragmentInit ==
    /\ pc = "_get_fragment"
    /\ loc \in [query_key_values : Queries,
                expected_amount : -1..MaxExpected,
                outcome : SearchOutcomes,
                response : {EmptyPage}]
    /\ method = NoMethod
    /\ body = NotXml
    /\ handler = NoHandler
    /\ event = NoEvent
    /\ exc = NoExc
    /\ calls = <<>>
    /\ mh = NothingLinked
    /\ created = 0

GetFragmentCall ==
    /\ pc = "_get_fragment"
    /\ LET r == GetFragment(loc.query_key_values, loc.expected_amount,
                            loc.outcome)
       IN  /\ calls' = calls \o r.calls
           /\ exc' = r.exc
           /\ loc' = [loc EXCEPT !.response = r.response]
           /\ pc' = IF r.exc.type = "none" THEN "_get_fragment returned"
                    ELSE "_get_fragment raised"
    /\ UNCHANGED <<method, body, handler, event, mh, created>>

GetFragmentSpec == GetFragmentInit /\ [][GetFragmentCall]_vars

----------------------------------------------------------------------------
(* EssenceLinkedHandler._construct_metadata on its own: one call for every *)
(* media id, pid and ie_type.  loc holds the arguments and the result.     *)

SidecarMediaIds == MediaIds \cup {"media id"}
SidecarPids == {"pid", "pid 2", "pid 3", "pid 4"}
SidecarIeTypes == {PyNone, "video", "audio", "film", "videofragment"}

ConstructMetadataInit ==
    /\ pc = "_construct_metadata"
    /\ loc \in [media_id : SidecarMediaIds, pid : SidecarPids,
                 ie_type : SidecarIeTypes, sidecar : {PyNone}]
    /\ method = NoMethod
    /\ body = NotXml
    /\ handler = NoHandler
    /\ event = NoEvent
    /\ exc = NoExc
    /\ calls = <<>>
    /\ mh = NothingLinked
    /\ created = 0

ConstructMetadataCall ==
    /\ pc = "_construct_metadata"
    /\ loc' = [loc EXCEPT !.sidecar = ConstructMetadata(loc.media_id, loc.pid,
                                                        loc.ie_type)]
    /\ pc' = "_construct_metadata returned"
    /\ UNCHANGED <<method, body, handler, event, exc, calls, mh, created>>

ConstructMetadataSpec == ConstructMetadataInit /\ [][ConstructMetadataCall]_vars

----------------------------------------------------------------------------
(* helpers/events_parser.py on its own: one construction for every event   *)
(* class and every body.  loc holds the root_tag of the class, body the    *)
(* xml handed to the constructor, event the object the caller receives.    *)

ParserInit ==
    /\ pc = "__init__"
    /\ loc \in [root_tag : RootTags]
    /\ body \in Bodies
    /\ method = NoMethod
    /\ handler = NoHandler
    /\ event = NoEvent
    /\ exc = NoExc
    /\ calls = <<>>
    /\ mh = NothingLinked
    /\ created = 0

\* EssenceLinkedEvent(xml), EssenceUnlinkedEvent(xml), ObjectDeletedEvent(xml)
ConstructEvent ==
    /\ pc = "__init__"
    /\ LET error == IF loc.root_tag = "essenceLinkedEvent"
                    THEN EssenceLinkedEventError(body)
                    ELSE EssenceEventError(loc.root_tag, body)
       IN  IF error.type = "none"
           THEN /\ event' = IF loc.root_tag = "essenceLinkedEvent"
                            THEN EssenceLinkedEvent(body)
                            ELSE EssenceEvent(loc.root_tag, body)
                /\ pc' = "constructed"
                /\ exc' = exc
           ELSE /\ exc' = error
                /\ pc' = "raised"
                /\ event' = event
    /\ UNCHANGED <<method, body, handler, loc, calls, mh, created>>

ParserSpec == ParserInit /\ [][ConstructEvent]_vars

----------------------------------------------------------------------------
(* services/mediahaven.py: MediahavenClient and its authenticate           *)
(* decorator.  loc holds the client's token_info and the name of the       *)
(* wrapped method that is running; calls is the history of one wrapped     *)
(* call.                                                                   *)

AuthenticationException == [type |-> "AuthenticationException"]
HTTPError == [type |-> "HTTPError"]
RetryException == [type |-> "RetryException"]

\* the methods decorated with @__authenticate
WrappedFunctions ==
    {"get_fragment", "create_fragment", "delete_fragment",
     "add_metadata_to_fragment"}

\* token_info as the token endpoint hands it out
Tokens == {"token 1", "token 2"}

\* __get_token: the body of the 201 response, or RequestException
GetTokenOutcomes == {Return_(t) : t \in Tokens} \cup {Raise_(RequestException)}

\* a wrapped method: its result, AuthenticationException for status 401,
\* HTTPError of raise_for_status, RequestException of requests, and
\* RetryException of add_metadata_to_fragment for status 403 and 404
FunctionOutcomes(function) ==
    {Return_("response"), Raise_(AuthenticationException), Raise_(HTTPError),
     Raise_(RequestException)}
    \cup (IF function = "add_metadata_to_fragment"
          THEN {Raise_(RetryException)} ELSE {})

Function(outcome) ==
    [op |-> "function", name |-> loc.function, token_info |-> loc.token_info,
     outcome |-> outcome]

GetToken(outcome) == [op |-> "__get_token", outcome |-> outcome]

\* __init__: no token yet
AuthenticateInit ==
    /\ pc = "MediahavenClient"
    /\ loc = [token_info |-> PyNone, function |-> PyNone]
    /\ method = NoMethod
    /\ body = NotXml
    /\ handler = NoHandler
    /\ event = NoEvent
    /\ exc = NoExc
    /\ calls = <<>>
    /\ mh = NothingLinked
    /\ created = 0

\* a caller invokes one of the wrapped methods of the client
CallWrapped ==
    /\ pc \in {"MediahavenClient", "wrapper_authenticate returned",
                "wrapper_authenticate raised"}
    /\ \E function \in WrappedFunctions :
          loc' = [loc EXCEPT !.function = function]
    /\ calls' = <<>>
    /\ exc' = NoExc
    /\ pc' = "wrapper_authenticate"
    /\ UNCHANGED <<method, body, handler, event, mh, created>>

\* lines 33-34: get a token when none is held
WrapperAuthenticate ==
    /\ pc = "wrapper_authenticate"
    /\ IF loc.token_info = PyNone
       THEN \E outcome \in GetTokenOutcomes :
              /\ calls' = Append(calls, GetToken(outcome))
              /\ IF outcome.kind = "raise"
                 THEN /\ exc' = outcome.error
                      /\ pc' = "wrapper_authenticate raised"
                      /\ loc' = loc
                 ELSE /\ loc' = [loc EXCEPT !.token_info = outcome.value]
                      /\ pc' = "try"
                      /\ exc' = exc
       ELSE /\ pc' = "try"
            /\ UNCHANGED <<loc, exc, calls>>
    /\ UNCHANGED <<method, body, handler, event, mh, created>>

\* lines 35-37: the first call of the wrapped method
FirstCall ==
    /\ pc = "try"
    /\ \E outcome \in FunctionOutcomes(loc.function) :
          /\ calls' = Append(calls, Function(outcome))
          /\ IF outcome.kind = "return"
             THEN /\ pc' = "wrapper_authenticate returned"
                  /\ exc' = exc
             ELSE IF outcome.error = AuthenticationException
             THEN /\ pc' = "except"
                  /\ exc' = outcome.error
             ELSE /\ pc' = "wrapper_authenticate raised"
                  /\ exc' = outcome.error
    /\ UNCHANGED <<method, body, handler, event, loc, mh, created>>

\* line 38: the handler of AuthenticationException gets a new token
RefreshToken ==
    /\ pc = "except"
    /\ \E outcome \in GetTokenOutcomes :
          /\ calls' = Append(calls, GetToken(outcome))
          /\ IF outcome.kind = "raise"
             THEN /\ exc' = outcome.error
                  /\ pc' = "wrapper_authenticate raised"
                  /\ loc' = loc
             ELSE /\ loc' = [loc EXCEPT !.token_info = outcome.value]
                  /\ pc' = "again"
                  /\ exc' = NoExc
    /\ UNCHANGED <<method, body, handler, event, mh, created>>

\* mutant: another AuthenticationException is handled like the first
SecondCall_RefreshAgain ==
    /\ pc = "again"
    /\ \E outcome \in FunctionOutcomes(loc.function) :
          /\ calls' = Append(calls, Function(outcome))
          /\ IF outcome.kind = "return"
             THEN /\ pc' = "wrapper_authenticate returned"
                  /\ exc' = exc
             ELSE IF outcome.error = AuthenticationException
             THEN /\ pc' = "except"
                  /\ exc' = outcome.error
             ELSE /\ pc' = "wrapper_authenticate raised"
                  /\ exc' = outcome.error
    /\ UNCHANGED <<method, body, handler, event, loc, mh, created>>

\* line 39: the second call of the wrapped method, outside the try
SecondCall ==
    /\ pc = "again"
    /\ \E outcome \in FunctionOutcomes(loc.function) :
          /\ calls' = Append(calls, Function(outcome))
          /\ IF outcome.kind = "return"
             THEN /\ pc' = "wrapper_authenticate returned"
                  /\ exc' = exc
             ELSE /\ pc' = "wrapper_authenticate raised"
                  /\ exc' = outcome.error
    /\ UNCHANGED <<method, body, handler, event, loc, mh, created>>

NextAuthenticate ==
    \/ CallWrapped
    \/ WrapperAuthenticate
    \/ FirstCall
    \/ RefreshToken
    \/ SecondCall

AuthenticateSpec == AuthenticateInit /\ [][NextAuthenticate]_vars

----------------------------------------------------------------------------
(* Reading the history *)

At(op) == {i \in 1..Len(calls) : calls[i].op = op}

Acks == At("basic_ack")
Nacks == At("basic_nack")

\* handle_message is over: it returned, or an exception left it
Finished == pc \in {"Done", "Crashed"}

BackendOps == {"search", "create_fragment", "update", "delete"}

\* calls to the backend, the PID service and the publisher
OutboundCalls ==
    {i \in 1..Len(calls) :
        calls[i].op \in BackendOps \cup {"get_pid", "send_message"}}

----------------------------------------------------------------------------
(* C1: for every inbound message and every outcome of the parsing,         *)
(* backend, PID and publish calls, handle_message issues exactly one       *)
(* disposition (ack or nack) for the delivery, never both.                 *)
C1_ExactlyOneDisposition ==
    Finished => Cardinality(Acks \cup Nacks) = 1

(* C2: when handle_event returns without raising, handle_message calls     *)
(* basic_ack exactly once, with the delivery tag of the message, and never *)
(* calls basic_nack.                                                       *)
C2_AckOnReturn ==
    /\ pc = "returned" => Acks = {} /\ Nacks = {}
    /\ (pc = "Done" /\ exc.type = "none") =>
          /\ Cardinality(Acks) = 1
          /\ \A i \in Acks : calls[i].delivery_tag = method.delivery_tag
          /\ Nacks = {}

C2_Witness ==
    /\ pc = "Done"
    /\ exc.type = "none"
    /\ method.delivery_tag = MaxTag
    /\ Acks # {}
    /\ At("send_message") # {}

(* C3: when handle_event raises NackException, the message is never acked  *)
(* and basic_nack is called exactly once, with the delivery tag of the     *)
(* message and requeue equal to the requeue flag of the exception.         *)
C3_NackOnStop ==
    (pc = "Done" /\ exc.type = "NackException") =>
        /\ Acks = {}
        /\ Cardinality(Nacks) = 1
        /\ \A i \in Nacks :
              /\ calls[i].delivery_tag = method.delivery_tag
              /\ calls[i].requeue = exc.requeue

C3_Witness ==
    /\ pc = "Done"
    /\ exc.type = "NackException"
    /\ exc.requeue
    /\ method.delivery_tag = MaxTag
    /\ \E i \in Nacks : calls[i].requeue

(* C4: a nack with requeue is preceded, in the same handle_message, by     *)
(* exactly one sleep of 10 seconds, made right before it; a nack without   *)
(* requeue is issued with no 10-second sleep at all.                       *)
RequeueSleeps ==
    {i \in At("sleep") : calls[i].tenths = REQUEUE_SLEEP}

C4_SleepBeforeRequeue ==
    \A i \in Nacks :
        IF calls[i].requeue
        THEN RequeueSleeps = {i - 1}
        ELSE RequeueSleeps = {}

C4_Witness ==
    /\ pc = "Done"
    /\ \E i \in Nacks : calls[i].requeue /\ RequeueSleeps = {i - 1}
    /\ At("update") # {}

(* C5: every stop is logged before the message is nacked: an error-level   *)
(* log entry with the message and the whole context of the NackException   *)
(* precedes basic_nack, and no nack is sent without it.                    *)
C5_LogBeforeNack ==
    \A i \in Nacks :
        \E j \in At("log") :
            /\ j < i
            /\ calls[j].level = "error"
            /\ calls[j].message = exc.message
            /\ calls[j].kwargs = exc.kwargs

C5_Witness ==
    /\ pc = "Done"
    /\ Nacks # {}
    /\ At("delete") # {}
    /\ \E j \in At("log") : calls[j].level = "error" /\ j < Len(calls)

(* C6: the dispatcher never retries a handler: one handler is selected and *)
(* its handle_event is invoked exactly once, with the raw body, whether it *)
(* succeeds or stops.                                                      *)
C6_HandleEventOnce ==
    Finished =>
        /\ Cardinality(At("_calculate_handler")) = 1
        /\ Cardinality(At("handle_event")) = 1
        /\ \A i \in At("handle_event") :
              calls[i].message = body /\ calls[i].handler = handler.kind

C6_Witness ==
    /\ pc = "Done"
    /\ exc.type = "NackException"
    /\ exc.requeue
    /\ Cardinality(At("handle_event")) = 1
    /\ At("search") # {}

(* C7 as stated: the linked, unlinked or object-deleted handler is         *)
(* returned when the routing key equals or ends with the configured key,   *)
(* and the unknown-routing-key handler when it matches none of the three.  *)
ExactOrSuffix(routing_key, key) ==
    routing_key = key \/ EndsWith(routing_key, key)

C7_ExactOrSuffixMatch ==
    pc = "dispatch" =>
        LET rk == method.routing_key
        IN  /\ ExactOrSuffix(rk, essence_linked_rk)
                  => handler.kind = "EssenceLinkedHandler"
            /\ ExactOrSuffix(rk, essence_unlinked_rk)
                  => handler.kind = "EssenceUnlinkedHandler"
            /\ ExactOrSuffix(rk, object_deleted_rk)
                  => handler.kind = "ObjectDeletedHandler"
            /\ (/\ ~ExactOrSuffix(rk, essence_linked_rk)
                /\ ~ExactOrSuffix(rk, essence_unlinked_rk)
                /\ ~ExactOrSuffix(rk, object_deleted_rk))
                  => handler.kind = "UnknownRoutingKeyHandler"

(* C7, amended: the handler is selected by the last dot-separated segment  *)
(* of the routing key: the linked, unlinked or object-deleted handler is   *)
(* returned exactly when the routing key equals the configured key or ends *)
(* with "." followed by it, and the unknown-routing-key handler, holding   *)
(* that last segment, in every other case.                                 *)
SegmentMatch(routing_key, key) ==
    routing_key = key \/ EndsWith(routing_key, <<".">> \o key)

\* the suffix after the last dot (the whole key when it holds no dot)
TrailingSegment(routing_key) ==
    CHOOSE s \in SeqsUpTo(Atoms, Len(routing_key)) :
        /\ EndsWith(routing_key, s)
        /\ \A i \in 1..Len(s) : s[i] # "."
        /\ Len(s) = Len(routing_key) \/ routing_key[Len(routing_key) - Len(s)] = "."

C7_LastSegmentMatch ==
    pc = "dispatch" =>
        LET rk == method.routing_key
        IN  /\ handler.kind = "EssenceLinkedHandler"
                  <=> SegmentMatch(rk, essence_linked_rk)
            /\ handler.kind = "EssenceUnlinkedHandler"
                  <=> SegmentMatch(rk, essence_unlinked_rk)
            /\ handler.kind = "ObjectDeletedHandler"
                  <=> SegmentMatch(rk, object_deleted_rk)
            /\ handler.kind = "UnknownRoutingKeyHandler"
                  <=> (/\ ~SegmentMatch(rk, essence_linked_rk)
                       /\ ~SegmentMatch(rk, essence_unlinked_rk)
                       /\ ~SegmentMatch(rk, object_deleted_rk))
            /\ handler.kind = "EssenceLinkedHandler"
                  => handler.routing_key = get_metadata_rk
            /\ handler.kind = "UnknownRoutingKeyHandler"
                  => handler.routing_key = TrailingSegment(rk)

C7_Witness ==
    /\ pc = "dispatch"
    /\ handler.kind = "EssenceLinkedHandler"
    /\ method.routing_key # essence_linked_rk
    /\ Len(method.routing_key) = 3

(* C8 as stated: the stop raised for a message with an unrecognized        *)
(* routing key carries that routing key.                                   *)
C8_CarriesRoutingKey ==
    (pc = "dispatch" /\ handler.kind = "UnknownRoutingKeyHandler") =>
        handler.routing_key = method.routing_key

(* C8, amended: a message with an unrecognized routing key is stopped at   *)
(* once: the unknown-routing-key handler raises a stop with requeue False  *)
(* that carries the last dot-separated segment of the routing key (the     *)
(* handler's key) and the raw body, no backend, PID or publish call is     *)
(* made, and the message is nacked without requeue.                        *)
C8_UnknownRoutingKey ==
    (Finished /\ handler.kind = "UnknownRoutingKeyHandler") =>
        /\ pc = "Done"
        /\ exc.type = "NackException"
        /\ exc.requeue = FALSE
        /\ exc.message = <<"Unknown routing key", handler.routing_key>>
        /\ exc.kwargs = [incoming_message |-> body]
        /\ OutboundCalls = {}
        /\ Acks = {}
        /\ Cardinality(Nacks) = 1
        /\ \A i \in Nacks : calls[i].requeue = FALSE

C8_Witness ==
    /\ pc = "Done"
    /\ handler.kind = "UnknownRoutingKeyHandler"
    /\ handler.routing_key # <<>>
    /\ body.xml
    /\ Nacks # {}

(* C9: the linked handler runs its steps in one fixed order: parse,        *)
(* search (s3_object_key = file, IsFragment = 0) expecting 1, search       *)
(* (dc_identifier_localid = media_id) expecting 0, extract umid, extract   *)
(* ie_type, get PID, create fragment, extract fragment id, update          *)
(* metadata, publish; a step runs only if every earlier step succeeded,    *)
(* and once a step has stopped no backend, PID or publish call follows.    *)
StepOps == {"_parse_event", "search", "_parse_umid", "_parse_ie_type",
            "get_pid", "create_fragment", "_parse_fragment_id", "update",
            "send_message"}

Steps == {i \in 1..Len(calls) : calls[i].op \in StepOps}

IsMainQuery(q) ==
    q = <<[plus |-> "s3_object_key", quoted |-> body.file],
          [plus |-> "IsFragment", quoted |-> "0"]>>

IsMediaIdQuery(q) ==
    q = <<[plus |-> "dc_identifier_localid", quoted |-> body.mediaId]>>

Rank(c) ==
    CASE c.op = "_parse_event" -> 1
      [] c.op = "search" -> IF IsMainQuery(c.q) THEN 2
                            ELSE IF IsMediaIdQuery(c.q) THEN 3 ELSE 0
      [] c.op = "_parse_umid" -> 4
      [] c.op = "_parse_ie_type" -> 5
      [] c.op = "get_pid" -> 6
      [] c.op = "create_fragment" -> 7
      [] c.op = "_parse_fragment_id" -> 8
      [] c.op = "update" -> 9
      [] c.op = "send_message" -> 10
      [] OTHER -> 0

Succeeded(c) ==
    CASE c.op = "_parse_event" ->
            /\ body.xml
            /\ body.root = "essenceLinkedEvent"
            /\ event.root_tag = "essenceLinkedEvent"
      [] c.op = "search" ->
            /\ c.outcome.kind = "return"
            /\ c.outcome.value.total_nr_of_results =
                  (IF IsMainQuery(c.q) THEN 1 ELSE 0)
      [] c.op = "_parse_umid" ->
            loc.fragment.records[1].MediaObjectId # Absent
      [] c.op = "_parse_ie_type" -> TRUE
      [] c.op = "get_pid" ->
            c.outcome.kind = "return" /\ c.outcome.value \notin {PyNone, ""}
      [] c.op = "create_fragment" -> c.outcome.kind = "return"
      [] c.op = "_parse_fragment_id" ->
            loc.create_fragment_response.FragmentId # Absent
      [] c.op = "update" ->
            c.outcome.kind = "return" /\ c.outcome.value = TRUE
      [] OTHER -> FALSE

AnsweredNotFoundOrForbidden(c) ==
    /\ c.op = "update"
    /\ c.outcome.kind = "raise"
    /\ c.outcome.error.type = "MediaHavenException"
    /\ c.outcome.error.status_code \in {403, 404}

C9_InOrder ==
    /\ \A i \in Steps :
          (\A k \in Steps : k >= i) => Rank(calls[i]) = 1
    /\ \A i, j \in Steps :
          (i < j /\ \A k \in Steps : ~(i < k /\ k < j)) =>
              \/ Rank(calls[j]) = Rank(calls[i]) + 1 /\ Succeeded(calls[i])
              \/ /\ calls[j].op = "update"
                 /\ AnsweredNotFoundOrForbidden(calls[i])

C9_FixedOrder ==
    /\ [](handler.kind = "EssenceLinkedHandler" => C9_InOrder)
    /\ [][(handler.kind = "EssenceLinkedHandler" /\ exc.type # "none"
           /\ pc # "Done")
             => OutboundCalls' = OutboundCalls]_vars

C9_Witness ==
    /\ pc = "Done"
    /\ handler.kind = "EssenceLinkedHandler"
    /\ Cardinality(At("update")) = 3
    /\ At("send_message") # {}
    /\ Acks # {}

(* C10: end-to-end success of a linked event: exactly one outbound message *)
(* is published, to the configured get-metadata routing key, with mediaId  *)
(* and correlationId both equal to the media_id of the event; the publish  *)
(* happens after the update succeeded and before the message is acked.     *)
Text(doc, tag) ==
    LET i == CHOOSE k \in 1..Len(doc.children) : doc.children[k].tag = tag
    IN  doc.children[i].text

UpdateSucceeded(i) ==
    /\ calls[i].op = "update"
    /\ calls[i].outcome.kind = "return"
    /\ calls[i].outcome.value = TRUE

C10_PublishOnSuccess ==
    /\ \A p \in At("send_message") :
          \E u \in At("update") : u < p /\ UpdateSucceeded(u)
    /\ (/\ Finished
        /\ handler.kind = "EssenceLinkedHandler"
        /\ \E u \in At("update") : UpdateSucceeded(u)) =>
          /\ Cardinality(At("send_message")) = 1
          /\ \A p \in At("send_message") :
                /\ calls[p].routing_key = get_metadata_rk
                /\ calls[p].body.tag = "getMetadataRequest"
                /\ Text(calls[p].body, "mediaId") = body.mediaId
                /\ Text(calls[p].body, "correlationId") = body.mediaId
                /\ \A u \in At("update") : u < p
                /\ calls[p].outcome.kind = "return" =>
                      /\ Cardinality(Acks) = 1
                      /\ \A a \in Acks : p < a
                      /\ Nacks = {}

C10_Witness ==
    /\ pc = "Done"
    /\ handler.kind = "EssenceLinkedHandler"
    /\ body.mediaId = "m2"
    /\ \E p \in At("send_message") :
          /\ calls[p].outcome.kind = "return"
          /\ \E a \in Acks : p < a

(* C11: idempotency guard: when the search for dc_identifier_localid =     *)
(* media_id reports a total greater than 0, the linked handler stops with  *)
(* requeue False before a PID is requested or a fragment created; nothing  *)
(* is published and the message is nacked without requeue.                 *)
MediaIdFound(i) ==
    /\ handler.kind = "EssenceLinkedHandler"
    /\ calls[i].op = "search"
    /\ IsMediaIdQuery(calls[i].q)
    /\ calls[i].outcome.kind = "return"
    /\ calls[i].outcome.value.total_nr_of_results > 0

C11_IdempotencyGuard ==
    \A i \in At("search") :
        MediaIdFound(i) =>
            /\ pc \in {"raised", "Done"}
            /\ exc.type = "NackException"
            /\ exc.requeue = FALSE
            /\ \A j \in OutboundCalls : j <= i
            /\ At("get_pid") = {}
            /\ At("create_fragment") = {}
            /\ At("update") = {}
            /\ At("send_message") = {}
            /\ Acks = {}
            /\ pc = "Done" =>
                  /\ Cardinality(Nacks) = 1
                  /\ \A n \in Nacks : calls[n].requeue = FALSE

C11_Witness ==
    /\ pc = "Done"
    /\ \E i \in At("search") : MediaIdFound(i)
    /\ \E n \in Nacks : calls[n].requeue = FALSE

(* C12: at most one backend fragment carries a given media id as           *)
(* dc_identifier_localid: over any serial sequence of linked-event         *)
(* deliveries for the same media id, duplicates and redeliveries included, *)
(* a second fragment is never given that media id, when searches reflect   *)
(* the updates that have completed.                                        *)
C12_AtMostOneFragment ==
    \A m \in MediaIds : mh[m] <= 1

C12_Witness ==
    /\ pc = "Done"
    /\ body.mediaId \in MediaIds
    /\ mh[body.mediaId] = 1
    /\ \E i \in At("search") : MediaIdFound(i)
    /\ At("update") = {}

(* C13: a linked event whose s3_bucket is "original-video" is skipped: the *)
(* handler makes no backend search, requests no PID, creates and updates   *)
(* no fragment and publishes nothing; it returns successfully and the      *)
(* message is acked.                                                       *)
OriginalVideo ==
    /\ handler.kind = "EssenceLinkedHandler"
    /\ event.root_tag = "essenceLinkedEvent"
    /\ event.s3_bucket = "original-video"

C13_OriginalVideoSkipped ==
    OriginalVideo =>
        /\ pc \in {"returned", "Done"}
        /\ exc.type = "none"
        /\ OutboundCalls = {}
        /\ Nacks = {}
        /\ pc = "Done" =>
              /\ Cardinality(Acks) = 1
              /\ \A a \in Acks : calls[a].delivery_tag = method.delivery_tag

C13_Witness ==
    /\ OriginalVideo
    /\ pc = "Done"
    /\ Acks # {}

(* C14: _get_fragment with expected_amount = N, N >= 0, raises a stop with *)
(* requeue False whenever the total reported by the backend differs from   *)
(* N and returns the result set when the total equals N; with              *)
(* expected_amount = -1 it never raises for a count reason, whatever the   *)
(* total.  The search is issued exactly once in every case.                *)
GetFragmentOver == pc \in {"_get_fragment returned", "_get_fragment raised"}

C14_ExpectedAmount ==
    GetFragmentOver =>
        /\ Cardinality(At("search")) = 1
        /\ \A i \in At("search") :
              /\ calls[i].q = CreateQuery(loc.query_key_values)
              /\ calls[i].outcome = loc.outcome
        /\ loc.outcome.kind = "return" =>
              LET total == loc.outcome.value.total_nr_of_results
              IN  IF loc.expected_amount >= 0 /\ total # loc.expected_amount
                  THEN /\ pc = "_get_fragment raised"
                       /\ exc.type = "NackException"
                       /\ exc.requeue = FALSE
                  ELSE /\ pc = "_get_fragment returned"
                       /\ exc = NoExc
                       /\ loc.response = loc.outcome.value

C14_Witness ==
    /\ pc = "_get_fragment raised"
    /\ loc.expected_amount = 1
    /\ loc.outcome.kind = "return"
    /\ loc.outcome.value.total_nr_of_results = MaxTotal
    /\ exc.type = "NackException"

(* C15: a connectivity error (RequestException) is always requeue-         *)
(* eligible: at each of the four backend call sites (search, create        *)
(* fragment, update fragment, also inside the retry loop of the update,    *)
(* and delete fragment) it becomes a stop with requeue True, and the       *)
(* message is nacked with requeue.                                         *)
BackendCalls == {i \in 1..Len(calls) : calls[i].op \in BackendOps}

ConnectivityError(i) ==
    /\ calls[i].outcome.kind = "raise"
    /\ calls[i].outcome.error.type = "RequestException"

C15_ConnectivityRequeued ==
    \A i \in BackendCalls :
        ConnectivityError(i) =>
            /\ pc \in {"raised", "Done"}
            /\ exc.type = "NackException"
            /\ exc.requeue = TRUE
            /\ exc.kwargs.error = calls[i].outcome.error
            /\ \A j \in OutboundCalls : j <= i
            /\ Acks = {}
            /\ pc = "Done" =>
                  /\ Cardinality(Nacks) = 1
                  /\ \A n \in Nacks : calls[n].requeue = TRUE

C15_Witness ==
    /\ pc = "Done"
    /\ \E i \in At("update") :
          /\ ConnectivityError(i)
          /\ \E j \in At("update") : j < i
    /\ \E n \in Nacks : calls[n].requeue = TRUE

(* C16: a definitive backend error response (MediaHavenException) at       *)
(* search, create fragment, delete fragment, or at update fragment with a  *)
(* status other than 403/404, becomes a stop with requeue False that       *)
(* carries the original error and its text; no call site marks a backend   *)
(* error response as requeue-eligible.                                     *)
ErrorResponse(i) ==
    /\ calls[i].outcome.kind = "raise"
    /\ calls[i].outcome.error.type = "MediaHavenException"

C16_BackendErrorNotRequeued ==
    \A i \in BackendCalls :
        /\ (ErrorResponse(i) /\ ~AnsweredNotFoundOrForbidden(calls[i])) =>
              /\ pc \in {"raised", "Done"}
              /\ exc.type = "NackException"
              /\ exc.requeue = FALSE
              /\ exc.kwargs.error = calls[i].outcome.error
              /\ exc.kwargs.error_response = <<"str", calls[i].outcome.error>>
              /\ \A j \in OutboundCalls : j <= i
              /\ Acks = {}
              /\ pc = "Done" =>
                    /\ Cardinality(Nacks) = 1
                    /\ \A n \in Nacks : calls[n].requeue = FALSE
        /\ (/\ ErrorResponse(i)
            /\ \A j \in OutboundCalls : j <= i
            /\ exc.type = "NackException") =>
              exc.requeue = FALSE

C16_Witness ==
    /\ pc = "Done"
    /\ \E i \in At("delete") :
          /\ ErrorResponse(i)
          /\ \E j \in At("delete") : j < i
    /\ \E n \in Nacks : calls[n].requeue = FALSE

(* C17: an event that fails parsing is never requeued: for the linked,     *)
(* unlinked and object-deleted handlers alike a parse failure becomes a    *)
(* stop with requeue False that carries the parse error and the raw        *)
(* message, no backend call is made, and the message is nacked without     *)
(* requeue.                                                                *)
ParseError ==
    IF handler.kind = "EssenceLinkedHandler"
    THEN EssenceLinkedEventError(body)
    ELSE EssenceEventError(RootTagOf(handler.kind), body)

ParseFailed ==
    /\ handler.kind \in DeleteKinds \cup {"EssenceLinkedHandler"}
    /\ At("_parse_event") # {}
    /\ ParseError.type = "InvalidEventException"

C17_InvalidEventNotRequeued ==
    ParseFailed =>
        /\ pc \in {"raised", "Done"}
        /\ exc.type = "NackException"
        /\ exc.requeue = FALSE
        /\ exc.kwargs.error = ParseError
        /\ \E k \in DOMAIN exc.kwargs \ {"error"} : exc.kwargs[k] = body
        /\ OutboundCalls = {}
        /\ Acks = {}
        /\ pc = "Done" =>
              /\ Cardinality(Nacks) = 1
              /\ \A n \in Nacks : calls[n].requeue = FALSE

C17_Witness ==
    /\ pc = "Done"
    /\ handler.kind = "ObjectDeletedHandler"
    /\ body.xml
    /\ body.root = "objectDeletedEvent"
    /\ ParseFailed
    /\ \E n \in Nacks : calls[n].requeue = FALSE

(* C18: when the PID client yields an empty or failed result (None or an   *)
(* empty string), the linked handler stops with requeue True before any    *)
(* fragment is created: create_fragment, update and publish are not        *)
(* called, and the message is nacked with requeue.                         *)
NoPid(i) ==
    /\ calls[i].op = "get_pid"
    /\ calls[i].outcome.kind = "return"
    /\ calls[i].outcome.value \in {PyNone, ""}

C18_NoPidRequeued ==
    \A i \in At("get_pid") :
        NoPid(i) =>
            /\ pc \in {"raised", "Done"}
            /\ exc.type = "NackException"
            /\ exc.requeue = TRUE
            /\ \A j \in OutboundCalls : j <= i
            /\ At("create_fragment") = {}
            /\ At("update") = {}
            /\ At("send_message") = {}
            /\ Acks = {}
            /\ pc = "Done" =>
                  /\ Cardinality(Nacks) = 1
                  /\ \A n \in Nacks : calls[n].requeue = TRUE

C18_Witness ==
    /\ pc = "Done"
    /\ \E i \in At("get_pid") : NoPid(i) /\ calls[i].outcome.value = ""
    /\ \E n \in Nacks : calls[n].requeue = TRUE

(* C19: update-fragment retry: when the backend answers 404 (or 403) on    *)
(* every attempt, the update is attempted exactly 5 times; every failed    *)
(* attempt is followed by a sleep, of 1, 2, 4, 8 and 16 seconds in turn    *)
(* (the delay starts at 1 s and doubles after each retryable failure, 31   *)
(* seconds in total), and then the operation surfaces as a failure.        *)
Updates == At("update")

\* position of update call i among the update calls
Attempt(i) == Cardinality({j \in Updates : j <= i})

AlwaysNotFoundOrForbidden ==
    /\ Updates # {}
    /\ \A i \in Updates : AnsweredNotFoundOrForbidden(calls[i])

RetryOver == pc \in {"raised", "Done", "Crashed", "returned", "send_message"}

RECURSIVE TotalSleep(_)
TotalSleep(S) ==
    IF S = {} THEN 0
    ELSE LET i == CHOOSE x \in S : TRUE
         IN  calls[i + 1].tenths + TotalSleep(S \ {i})

C19_RetryBackoff ==
    /\ Cardinality(Updates) <= 5
    /\ \A i \in Updates :
          AnsweredNotFoundOrForbidden(calls[i]) =>
              /\ i < Len(calls)
              /\ calls[i + 1] = Sleep(10 * 2 ^ (Attempt(i) - 1))
    /\ (AlwaysNotFoundOrForbidden /\ RetryOver) =>
          /\ Cardinality(Updates) = 5
          /\ \A k \in 1..5 : \E i \in Updates :
                Attempt(i) = k /\ calls[i + 1].tenths = <<10, 20, 40, 80, 160>>[k]
          /\ TotalSleep(Updates) = 310
          /\ pc \in {"raised", "Done"}
          /\ exc.type = "NackException"

C19_Witness ==
    /\ pc = "Done"
    /\ AlwaysNotFoundOrForbidden
    /\ Cardinality(Updates) = 5
    /\ \E i, j \in Updates :
          /\ calls[i].outcome.error.status_code = 403
          /\ calls[j].outcome.error.status_code = 404
    /\ calls[Len(calls) - 2] = Sleep(160)

(* C20: exhausting the update retries is surfaced by the linked handler as *)
(* a stop: after the 5th not-found/forbidden answer the retry wrapper      *)
(* yields a failure value, not an exception; _add_metadata raises a stop   *)
(* with requeue False, nothing is published and the message is nacked      *)
(* without requeue.                                                        *)
C20_RetryExhaustedStops ==
    (AlwaysNotFoundOrForbidden /\ Cardinality(Updates) = 5 /\ RetryOver) =>
        /\ pc \in {"raised", "Done"}
        /\ exc = NackException(
                     <<"Unable to update the metadata for fragment id",
                       loc.fragment_id, body.mediaId>>,
                     FALSE,
                     [fragment_id |-> loc.fragment_id,
                      media_id |-> body.mediaId])
        /\ At("send_message") = {}
        /\ \A j \in OutboundCalls : j \in Updates \/ \E u \in Updates : j < u
        /\ Acks = {}
        /\ pc = "Done" =>
              /\ Cardinality(Nacks) = 1
              /\ \A n \in Nacks : calls[n].requeue = FALSE

C20_Witness ==
    /\ pc = "Done"
    /\ AlwaysNotFoundOrForbidden
    /\ Cardinality(Updates) = 5
    /\ exc.type = "NackException"
    /\ "error" \notin DOMAIN exc.kwargs
    /\ \E n \in Nacks : calls[n].requeue = FALSE

(* C21: an explicit False result of the update call is not an exception    *)
(* and is not retried: no update call and no backoff sleep follows it (so  *)
(* a False first answer leaves exactly one update call and no backoff      *)
(* sleep), and the handler turns it into a stop with requeue False that    *)
(* carries no backend error.                                               *)
AnsweredFalse(i) ==
    /\ calls[i].op = "update"
    /\ calls[i].outcome.kind = "return"
    /\ calls[i].outcome.value = FALSE

\* the sleeps of the retry wrapper: those that follow an update call
BackoffSleeps == {k \in At("sleep") : k > 1 /\ calls[k - 1].op = "update"}

C21_FalseNotRetried ==
    \A i \in Updates :
        AnsweredFalse(i) =>
            /\ pc \in {"raised", "Done"}
            /\ \A j \in Updates : j <= i
            /\ \A k \in BackoffSleeps : k < i
            /\ Attempt(i) = 1 =>
                  Cardinality(Updates) = 1 /\ BackoffSleeps = {}
            /\ exc.type = "NackException"
            /\ exc.requeue = FALSE
            /\ "error" \notin DOMAIN exc.kwargs
            /\ At("send_message") = {}
            /\ pc = "Done" =>
                  /\ Acks = {}
                  /\ Cardinality(Nacks) = 1
                  /\ \A n \in Nacks : calls[n].requeue = FALSE

C21_Witness ==
    /\ pc = "Done"
    /\ \E i \in Updates : AnsweredFalse(i) /\ Attempt(i) = 1
    /\ At("sleep") # {}
    /\ Nacks # {}

(* C22: the fetch of the PID client uses the bounded retry: when every     *)
(* request to the PID service raises a connectivity error, or every        *)
(* response cannot be parsed for an id, get_pid returns an empty result    *)
(* only after NUMBER_OF_TRIES (5) attempts with 5 backoff sleeps.          *)
PidRequests == At("requests.get")

PidFetchFailed(i) ==
    /\ calls[i].op = "get_pid"
    /\ calls[i].outcome = Return_(PyNone)
    /\ \A r \in PidRequests :
          calls[r].response \in {"request_exception", "empty_list", "no_id"}

C22_PidFetchRetried ==
    \A i \in At("get_pid") :
        PidFetchFailed(i) =>
            /\ Cardinality({r \in PidRequests : r < i}) = 5
            /\ Cardinality({k \in At("sleep") :
                               /\ k < i
                               /\ \E r \in PidRequests : r < k}) = 5

(* C23: deleting for a media id whose search reports zero records is a     *)
(* stop with requeue False and issues no delete call; a connectivity error *)
(* raised by a delete call is a stop with requeue True.                    *)
NothingToDelete(i) ==
    /\ handler.kind \in DeleteKinds
    /\ calls[i].op = "search"
    /\ calls[i].outcome.kind = "return"
    /\ calls[i].outcome.value.total_nr_of_results = 0

C23_DeleteStops ==
    /\ \A i \in At("search") :
          NothingToDelete(i) =>
              /\ pc \in {"raised", "Done"}
              /\ exc.type = "NackException"
              /\ exc.requeue = FALSE
              /\ At("delete") = {}
              /\ Acks = {}
              /\ pc = "Done" =>
                    /\ Cardinality(Nacks) = 1
                    /\ \A n \in Nacks : calls[n].requeue = FALSE
    /\ \A i \in At("delete") :
          ConnectivityError(i) =>
              /\ pc \in {"raised", "Done"}
              /\ exc.type = "NackException"
              /\ exc.requeue = TRUE
              /\ Acks = {}
              /\ pc = "Done" =>
                    /\ Cardinality(Nacks) = 1
                    /\ \A n \in Nacks : calls[n].requeue = TRUE

C23_Witness ==
    /\ pc = "Done"
    /\ handler.kind = "EssenceUnlinkedHandler"
    /\ \E i \in At("search") : NothingToDelete(i)
    /\ \E n \in Nacks : calls[n].requeue = FALSE

(* C24: when the unlinked / object-deleted handler completes, delete was   *)
(* called once for every record the media id query matched: the number of *)
(* delete calls is the total the query reported and the handler logs as    *)
(* deleted; the message is acked and nothing is published.                 *)
DeleteCompleted ==
    /\ pc = "Done"
    /\ handler.kind \in DeleteKinds
    /\ Acks # {}

LoggedAsDeleted(i) ==
    /\ calls[i].op = "log"
    /\ calls[i].level = "info"
    /\ calls[i].message[1] = "Successfully deleted"

C24_DeleteEveryMatch ==
    DeleteCompleted =>
        /\ \A i \in At("search") :
              Cardinality(At("delete"))
                  = calls[i].outcome.value.total_nr_of_results
        /\ \A i \in At("log") :
              LoggedAsDeleted(i) =>
                  calls[i].message[2] = Cardinality(At("delete"))
        /\ \A i \in At("delete") :
              /\ calls[i].outcome.kind = "return"
              /\ calls[i].outcome.value
        /\ Cardinality(Acks) = 1
        /\ Nacks = {}
        /\ At("send_message") = {}

(* C25: the delete loop ends at the first deletion that fails. When the    *)
(* delete of the k-th record raises a backend error or a connectivity      *)
(* error, or returns false, the handler stops, with requeue True only for  *)
(* the connectivity error; exactly k delete calls were issued, none for    *)
(* the records after the k-th, and the k-1 earlier deletions, all          *)
(* successful, are neither repeated nor undone.                            *)
DeleteFailed(i) ==
    /\ calls[i].op = "delete"
    /\ \/ calls[i].outcome.kind = "raise"
       \/ /\ calls[i].outcome.kind = "return"
          /\ calls[i].outcome.value = FALSE

C25_DeleteLoopAborts ==
    \A i \in At("delete") :
        DeleteFailed(i) =>
            /\ pc \in {"raised", "Done"}
            /\ exc.type = "NackException"
            /\ exc.requeue = ConnectivityError(i)
            /\ loc.index = Cardinality(At("delete"))
            /\ \A j \in At("delete") :
                  /\ j <= i
                  /\ j < i => /\ calls[j].outcome.kind = "return"
                              /\ calls[j].outcome.value = TRUE
            /\ \A j \in OutboundCalls : j <= i
            /\ \A j \in BackendCalls : calls[j].op \in {"search", "delete"}
            /\ Cardinality(At("search")) = 1
            /\ At("send_message") = {}
            /\ Acks = {}
            /\ pc = "Done" =>
                  /\ Cardinality(Nacks) = 1
                  /\ \A n \in Nacks : calls[n].requeue = ConnectivityError(i)

C25_Witness ==
    /\ pc = "Done"
    /\ handler.kind = "ObjectDeletedHandler"
    /\ Len(loc.response.records) = 2
    /\ Cardinality(At("delete")) = 1
    /\ \E i \in At("delete") :
          /\ calls[i].outcome.kind = "return"
          /\ calls[i].outcome.value = FALSE
    /\ \E n \in Nacks : calls[n].requeue = FALSE

(* C26: the authentication refresh is bounded.  For a call wrapped by the  *)
(* authenticate decorator, an authentication failure of the first attempt  *)
(* makes the client get a new token once and invoke the call once more,    *)
(* with that token; a second authentication failure in a row leaves the    *)
(* wrapper as an error.  The wrapped call is invoked at most twice, a      *)
(* token is acquired at most twice per call, and the call is never invoked *)
(* while no token is held.                                                 *)
FunctionCalls == At("function")
TokenCalls == At("__get_token")

AuthenticationFailed(i) ==
    /\ calls[i].op = "function"
    /\ calls[i].outcome.kind = "raise"
    /\ calls[i].outcome.error = AuthenticationException

WrapperOver ==
    pc \in {"wrapper_authenticate returned", "wrapper_authenticate raised"}

C26_RefreshBounded ==
    /\ Cardinality(FunctionCalls) <= 2
    /\ Cardinality(TokenCalls) <= 2
    /\ \A i \in FunctionCalls : calls[i].token_info \in Tokens
    /\ \A i \in FunctionCalls :
          \* the first attempt
          (\A j \in FunctionCalls : i <= j) =>
              IF AuthenticationFailed(i)
              THEN /\ pc # "except" =>
                        /\ Cardinality({t \in TokenCalls : t > i}) = 1
                        /\ i + 1 \in TokenCalls
                   /\ (WrapperOver /\ calls[i + 1].outcome.kind = "return") =>
                        /\ Cardinality(FunctionCalls) = 2
                        /\ i + 2 \in FunctionCalls
                        /\ calls[i + 2].token_info = calls[i + 1].outcome.value
                   /\ (WrapperOver /\ calls[i + 1].outcome.kind = "raise") =>
                        /\ Cardinality(FunctionCalls) = 1
                        /\ pc = "wrapper_authenticate raised"
                        /\ exc = RequestException
              ELSE /\ Cardinality(FunctionCalls) = 1
                   /\ WrapperOver
                   /\ \A t \in TokenCalls : t < i
    /\ \A i \in FunctionCalls :
          \* the second attempt
          (\E j \in FunctionCalls : j < i) =>
              /\ WrapperOver
              /\ calls[i].outcome.kind = "raise" =>
                    /\ pc = "wrapper_authenticate raised"
                    /\ exc = calls[i].outcome.error

C26_Witness ==
    /\ pc = "wrapper_authenticate raised"
    /\ exc = AuthenticationException
    /\ Cardinality(TokenCalls) = 2
    /\ Cardinality(FunctionCalls) = 2
    /\ \A i \in FunctionCalls : AuthenticationFailed(i)

(* C27: parsing rejects a bad event as a whole.  For a body that is not    *)
(* valid XML, whose root element is not the tag of the event class, or     *)
(* that lacks a mandatory field (timestamp, media id, and file for a       *)
(* linked event), the construction raises InvalidEventException and the    *)
(* caller receives no event object, not even a partly filled one.          *)
Constructing == pc # "__init__"

MandatoryXml(root_tag) ==
    IF root_tag = "essenceLinkedEvent"
    THEN {"timestamp", "mediaId", "file"}
    ELSE {"timestamp", "mediaId"}

WellFormed(root_tag, xml) ==
    /\ xml.xml
    /\ xml.root = root_tag

C27_RejectedAtomically ==
    (/\ Constructing
     /\ \/ ~WellFormed(loc.root_tag, body)
        \/ \E f \in MandatoryXml(loc.root_tag) : body[f] = Absent) =>
        /\ pc = "raised"
        /\ exc.type = "InvalidEventException"
        /\ event = NoEvent

C27_Witness ==
    /\ pc = "raised"
    /\ loc.root_tag = "essenceLinkedEvent"
    /\ body.xml
    /\ body.root = "essenceUnlinkedEvent"
    /\ body.timestamp # Absent
    /\ body.mediaId # Absent

(* C28: parsing succeeds for every well-formed body whose root is the tag  *)
(* of the event class and whose mandatory fields are present: timestamp    *)
(* and media id, and file for a linked event, s3bucket not being one of    *)
(* them; every parsed field is the text of its element.                    *)
C28_ParsesWellFormed ==
    (/\ Constructing
     /\ WellFormed(loc.root_tag, body)
     /\ \A f \in MandatoryXml(loc.root_tag) : body[f] # Absent) =>
        /\ pc = "constructed"
        /\ exc = NoExc
        /\ event.root_tag = loc.root_tag
        /\ event.timestamp = body.timestamp
        /\ event.media_id = body.mediaId
        /\ loc.root_tag = "essenceLinkedEvent" => event.file = body.file

(* C29: reading the main record.  A record without an intellectual-entity  *)
(* type does not stop the linked handler: ie_type is None and the handler  *)
(* goes on to request a PID.  A record without MediaObjectId stops the     *)
(* handler with requeue False before a PID is requested or a fragment is   *)
(* created.                                                                *)
MainRecord == loc.fragment.records[1]

C29_UmidMandatoryTypeOptional ==
    /\ \A i \in At("_parse_ie_type") :
          /\ MainRecord.Type = Absent => loc.ie_type = PyNone
          /\ MainRecord.Type # Absent => loc.ie_type = MainRecord.Type
          /\ \/ pc = "get_pid"
             \/ /\ i + 1 \in At("requests.get")
                /\ i + 2 \in At("get_pid")
    /\ \A i \in At("_parse_umid") :
          MainRecord.MediaObjectId = Absent =>
              /\ pc \in {"raised", "Done"}
              /\ exc.type = "NackException"
              /\ exc.requeue = FALSE
              /\ \A j \in 1..Len(calls) :
                    calls[j].op \notin {"_parse_ie_type", "requests.get",
                                        "get_pid", "create_fragment", "update",
                                        "send_message"}
              /\ \A j \in OutboundCalls : j < i
              /\ Acks = {}
              /\ pc = "Done" =>
                    /\ Cardinality(Nacks) = 1
                    /\ \A n \in Nacks : calls[n].requeue = FALSE

C29_Witness ==
    /\ pc = "Done"
    /\ At("_parse_ie_type") # {}
    /\ MainRecord.Type = Absent
    /\ At("send_message") # {}
    /\ Acks # {}

(* C30: a create-fragment response that carries no fragment id stops the   *)
(* linked handler with requeue False: no update call is made, nothing is   *)
(* published, and the message is nacked without requeue.                   *)
NoFragmentId(i) ==
    /\ calls[i].op = "create_fragment"
    /\ calls[i].outcome.kind = "return"
    /\ calls[i].outcome.value.FragmentId = Absent

C30_NoFragmentIdStops ==
    \A i \in At("create_fragment") :
        NoFragmentId(i) =>
            /\ pc \in {"parse_fragment_id", "raised", "Done"}
            /\ pc # "parse_fragment_id" =>
                  /\ exc.type = "NackException"
                  /\ exc.requeue = FALSE
                  /\ exc.kwargs.create_fragment_response
                        = calls[i].outcome.value
            /\ At("update") = {}
            /\ At("send_message") = {}
            /\ \A j \in OutboundCalls : j <= i
            /\ Acks = {}
            /\ pc = "Done" =>
                  /\ Cardinality(Nacks) = 1
                  /\ \A n \in Nacks : calls[n].requeue = FALSE

C30_Witness ==
    /\ pc = "Done"
    /\ \E i \in At("create_fragment") : NoFragmentId(i)
    /\ \E n \in Nacks : calls[n].requeue = FALSE

(* C33: across the deliveries of one linked event, redeliveries after a    *)
(* nack with requeue included, create_fragment succeeds at most once, so   *)
(* a requeue cycle leaves no fragment without metadata behind.             *)
C33_CreatedAtMostOnce == created <= 1

(* C31: no compensation.  The linked handler never issues a delete call.   *)
(* When it stops after create_fragment succeeded (no fragment id, an       *)
(* error of the update, the tries used up, or a false result of the        *)
(* update), the only backend calls that follow the create are updates:     *)
(* the created fragment is left as it is and nothing is rolled back.       *)
FragmentCreated(i) ==
    /\ calls[i].op = "create_fragment"
    /\ calls[i].outcome.kind = "return"

C31_NoCompensation ==
    handler.kind = "EssenceLinkedHandler" =>
        /\ At("delete") = {}
        /\ Cardinality(At("create_fragment")) <= 1
        /\ \A i \in At("create_fragment") :
              FragmentCreated(i) =>
                  \A j \in BackendCalls : j > i => calls[j].op = "update"

C31_Witness ==
    /\ pc = "Done"
    /\ handler.kind = "EssenceLinkedHandler"
    /\ \E i \in At("create_fragment") : FragmentCreated(i)
    /\ Cardinality(At("update")) = NUMBER_OF_TRIES
    /\ \E n \in Nacks : calls[n].requeue = FALSE

(* C32: the sidecar built for (media_id, pid, ie_type) is a Sidecar root   *)
(* with version "20.1" holding one Dynamic element, whose children are, in *)
(* this order: dc_identifier_localid = media_id, PID = pid,                *)
(* dc_identifier_localids holding MEDIA_ID = media_id, object_level =      *)
(* "ie", object_use = "archive_master", ie_type = ie_type.                 *)
Tags(elements) == [i \in 1..Len(elements) |-> elements[i].tag]
Texts(elements) == [i \in 1..Len(elements) |-> elements[i].text]

C32_SidecarLayout ==
    pc = "_construct_metadata returned" =>
        /\ loc.sidecar.tag = "mhs:Sidecar"
        /\ loc.sidecar.version = "20.1"
        /\ Tags(loc.sidecar.children) = <<"mhs:Dynamic">>
        /\ LET dynamic == loc.sidecar.children[1].children
           IN  /\ Tags(dynamic) = <<"dc_identifier_localid", "PID",
                                    "dc_identifier_localids", "object_level",
                                    "object_use", "ie_type">>
               /\ Texts(dynamic) = <<loc.media_id, loc.pid, PyNone, "ie",
                                     "archive_master", loc.ie_type>>
               /\ Tags(dynamic[3].children) = <<"MEDIA_ID">>
               /\ Texts(dynamic[3].children) = <<loc.media_id>>
               /\ \A i \in {1, 2, 4, 5, 6} : dynamic[i].children = <<>>

C32_Witness ==
    /\ pc = "_construct_metadata returned"
    /\ loc.media_id = "media id"
    /\ loc.pid = "pid"
    /\ loc.ie_type = "video"

(* C34: the retry loop stops at the first outcome that is not retryable.   *)
(* When attempt k of the update (1 <= k <= 5), after k-1 answers 403/404,  *)
(* raises a backend error with another status or a connectivity error,     *)
(* exactly k attempts and k-1 backoff sleeps have been made, no attempt    *)
(* follows, and _add_metadata stops with the error, with requeue False     *)
(* for the backend error and requeue True for the connectivity error.      *)
NotRetryable(i) ==
    /\ calls[i].op = "update"
    /\ calls[i].outcome.kind = "raise"
    /\ ~AnsweredNotFoundOrForbidden(calls[i])

C34_StopsAtNonRetryable ==
    \A i \in Updates :
        NotRetryable(i) =>
            /\ Attempt(i) \in 1..NUMBER_OF_TRIES
            /\ Cardinality(Updates) = Attempt(i)
            /\ Cardinality(BackoffSleeps) = Attempt(i) - 1
            /\ \A j \in Updates :
                  j < i => /\ AnsweredNotFoundOrForbidden(calls[j])
                           /\ j + 1 \in BackoffSleeps
            /\ \A j \in OutboundCalls : j <= i
            /\ pc \in {"raised", "Done"}
            /\ exc.type = "NackException"
            /\ exc.kwargs.error = calls[i].outcome.error
            /\ exc.requeue = ConnectivityError(i)
            /\ Acks = {}
            /\ pc = "Done" =>
                  /\ Cardinality(Nacks) = 1
                  /\ \A n \in Nacks : calls[n].requeue = ConnectivityError(i)

C34_Witness ==
    /\ pc = "Done"
    /\ \E i \in Updates :
          /\ NotRetryable(i)
          /\ ErrorResponse(i)
          /\ Attempt(i) = 3
    /\ \E n \in Nacks : calls[n].requeue = FALSE

(* C35: when the update answers 403/404 on the first k-1 attempts and      *)
(* succeeds on attempt k (1 <= k <= 5), the wrapper returns the result of  *)
(* that attempt at once: exactly k attempts and k-1 sleeps, of 1, 2, 4, 8  *)
(* seconds in turn, have been made, no attempt follows the success, and    *)
(* the handler goes on to publish.                                         *)
UpdateReturnedTrue(i) ==
    /\ calls[i].op = "update"
    /\ calls[i].outcome.kind = "return"
    /\ calls[i].outcome.value = TRUE

C35_SuccessEndsRetry ==
    \A i \in Updates :
        UpdateReturnedTrue(i) =>
            /\ Attempt(i) \in 1..NUMBER_OF_TRIES
            /\ Cardinality(Updates) = Attempt(i)
            /\ Cardinality(BackoffSleeps) = Attempt(i) - 1
            /\ \A j \in Updates :
                  j < i => /\ AnsweredNotFoundOrForbidden(calls[j])
                           /\ calls[j + 1]
                                = Sleep(<<10, 20, 40, 80>>[Attempt(j)])
            /\ \A k \in At("sleep") : k < i
            /\ \/ pc = "send_message"
               \/ /\ i + 1 \in At("send_message")
                  /\ Cardinality(At("send_message")) = 1

C35_Witness ==
    /\ pc = "Done"
    /\ Acks # {}
    /\ Cardinality(Updates) = NUMBER_OF_TRIES
    /\ \E i \in Updates : UpdateReturnedTrue(i)
    /\ At("send_message") # {}

(* C36: an ack means full success.  Whenever the message of a linked       *)
(* event is acked, either the event was skipped for the bucket             *)
(* "original-video", or the update returned a true result and send_message *)
(* was called exactly once, before the ack.  The message of a delete flow  *)
(* is acked only if every delete call that was issued returned a true      *)
(* result.  Nothing else is acked.                                         *)
SkippedForBucket ==
    /\ event.s3_bucket = "original-video"
    /\ BackendCalls = {}
    /\ At("send_message") = {}

C36_AckMeansSuccess ==
    \A a \in Acks :
        /\ handler.kind \in {"EssenceLinkedHandler"} \cup DeleteKinds
        /\ handler.kind = "EssenceLinkedHandler" =>
              \/ SkippedForBucket
              \/ /\ \E i \in Updates : i < a /\ UpdateReturnedTrue(i)
                 /\ Cardinality(At("send_message")) = 1
                 /\ \A s \in At("send_message") :
                       /\ s < a
                       /\ calls[s].outcome.kind = "return"
                       /\ \E i \in Updates : i < s /\ UpdateReturnedTrue(i)
        /\ handler.kind \in DeleteKinds =>
              /\ \A d \in At("delete") :
                    /\ d < a
                    /\ calls[d].outcome.kind = "return"
                    /\ calls[d].outcome.value = TRUE
              /\ At("send_message") = {}

C36_Witness ==
    /\ pc = "Done"
    /\ Acks # {}
    /\ handler.kind = "EssenceLinkedHandler"
    /\ ~SkippedForBucket
    /\ \E i \in Updates : UpdateReturnedTrue(i) /\ Attempt(i) = 2

(* C37: a message whose handling fails with a connectivity error is not    *)
(* dropped and not acked on that delivery: the delivery ends in a nack     *)
(* with requeue.  Nothing counts the redeliveries, and the message that is *)
(* delivered again is handled like one delivered for the first time: with  *)
(* a new handler, no event, no locals and an empty history.                *)
ConnectivityFailure == \E i \in BackendCalls : ConnectivityError(i)

NackedWithRequeue ==
    /\ pc = "Done"
    /\ Acks = {}
    /\ Cardinality(Nacks) = 1
    /\ \A n \in Nacks : calls[n].requeue = TRUE

AsFirstDelivery ==
    /\ pc' = "handle_message"
    /\ method'.routing_key = essence_linked_rk
    /\ body' = body
    /\ handler' = NoHandler
    /\ event' = NoEvent
    /\ loc' = NoLoc
    /\ exc' = NoExc
    /\ calls' = <<>>

C37_ConnectivityRequeuedAgain ==
    /\ [](ConnectivityFailure =>
            /\ Acks = {}
            /\ pc \in {"raised", "Done"}
            /\ exc.type = "NackException"
            /\ exc.requeue = TRUE
            /\ \A n \in Nacks : calls[n].requeue = TRUE)
    /\ ConnectivityFailure ~> NackedWithRequeue
    /\ [][(NackedWithRequeue /\ pc' # "Done") => AsFirstDelivery]_vars
    /\ NackedWithRequeue ~> (pc = "handle_message" /\ calls = <<>>)

C37_Witness ==
    /\ NackedWithRequeue
    /\ created = 1
    /\ \E i \in At("search") : ConnectivityError(i) /\ IsMainQuery(calls[i].q)

(* C38: handling one message always ends, every external call returning or *)
(* raising: the update is attempted at most 5 times, the delete loop makes *)
(* at most one delete call for each record that was returned, and the      *)
(* dispatcher selects a handler and calls handle_event once, so the        *)
(* message is disposed of after a bounded number of backend calls and      *)
(* sleeps.                                                                 *)
Sleeps == At("sleep")

Handling == pc # "Idle" /\ ~Finished

\* grows with every step of handle_message
Progress ==
    2 * Len(calls) + (IF pc = "raised" THEN 1 ELSE 0)
                   + (IF Finished THEN 2 ELSE 0)

NothingLeftOver ==
    /\ handler = NoHandler
    /\ event = NoEvent
    /\ loc = NoLoc
    /\ exc = NoExc
    /\ calls = <<>>

C39_NoSharedState ==
    /\ [](pc = "handle_message" => NothingLeftOver)
    /\ []((pc = "retry_loop" /\ Updates = {}) =>
            /\ loc.tries = NUMBER_OF_TRIES
            /\ loc.delay = DELAY)
    /\ [](\A i \in Updates :
            (Attempt(i) = 1 /\ AnsweredNotFoundOrForbidden(calls[i])) =>
                calls[i + 1] = Sleep(DELAY))
    /\ [][pc = "handle_message" =>
            /\ handler' = CalculateHandlerFor(method.routing_key)
            /\ UNCHANGED <<event, loc, exc>>]_vars
    /\ [][pc = "add_metadata" =>
            /\ loc'.tries = NUMBER_OF_TRIES
            /\ loc'.delay = DELAY]_vars

C39_Witness ==
    /\ pc = "retry_loop"
    /\ Updates = {}
    /\ loc.tries = NUMBER_OF_TRIES
    /\ \E m \in MediaIds : mh[m] > 0

====
